---- MODULE Spec2Model ----
(***************************************************************************)
(* Ledger replay and ownership reconciliation of the NFT owners snapshot   *)
(* and draw service.  The module holds one state machine per helper of    *)
(* the service; each specification below runs one of them:                *)
(*                                                                         *)
(*   SpecNft    fetchStakedNfts, src/index.js and src/unnamed/part_005     *)
(*   SpecEsdt   fetchStakedEsdts, src/unnamed/part_005                     *)
(*   SpecPages  fetchAllTransactions and fetchScNfts, src/unnamed/part_005 *)
(*   SpecOwners fetchNftOwnersInBatches, src/index.js                      *)
(*   SpecCalls  fetchNftOwners, src/unnamed/part_000, part_003, part_006   *)
(*   SpecPool   asyncPool, src/unnamed/part_005                            *)
(*   SpecProfiles fetchStakedNfts, src/unnamed/part_003                    *)
(*   SpecHolders  the owner fetchers of src/index.js                       *)
(*   SpecFee      the fee-gated route, src/index.js and part_005           *)
(*   SpecRetry  fetchWithRetry, src/unnamed/part_005                       *)
(*   SpecStats  generateUniqueOwnerStats, src/index.js and part_003        *)
(*   SpecDraw   the draw routes, src/index.js, part_003 and part_005       *)
(***************************************************************************)
EXTENDS Integers, Sequences, FiniteSets, TLC

VARIABLES
    pc,              \* position of the running helper
    ledger,          \* the contract's transfers as the API lists them
    stakedData,      \* index.js:849   successful stake records fetched
    unstakedData,    \* index.js:859   successful transfer-back records fetched
    allTransactions, \* index.js:869 / part_005:957   the array that is folded
    foldIdx,         \* number of elements of the array already folded
    stakedNfts,      \* index.js:833   Map identifier -> {owner, identifier}
    contractLabel,   \* index.js:811   the label fetchStakedNfts is called with
    rawStakedEvents, \* part_005:963
    validNftIds,     \* part_005:993
    returned,        \* value the helper resolved with
    userBalances,    \* part_005:1066  object address -> balance, in key order
    totalStaked,     \* part_005:1067
    contractBalance, \* part_005:1123
    collector,       \* the paginated collector that runs
    from,            \* part_005:892 / 914
    currentBatchSize,\* part_005:894 / 916
    requests,        \* offsets of the page requests issued so far, in order
    tokensNumber,    \* index.js:149
    includeSmartContracts, \* index.js:142
    batch,           \* index.js:171-185  per throttled call: state, attempt, last error
    addressesArr,    \* index.js:145
    latency,         \* milliseconds the API takes to answer a page request
    issued,          \* the page requests started so far, each with its start time
    server,          \* how the API answers the attempts of one fetchWithRetry
    attempts,        \* part_005:844  the loop counter i
    backoff,         \* part_005:843
    delay,           \* part_005:849  the wait that is pending
    clock,           \* milliseconds since fetchWithRetry was called
    calls,           \* start times of the HTTP calls made so far, in order
    thrown,          \* message of the error the helper threw
    route,           \* the draw route that handles the request
    body,            \* req.body
    pool,            \* the holder records the draw is made from
    decimals,        \* decimals of the token, as fetchTokenDecimals returned them
    response,        \* what the route answered
    previous,        \* what the earlier invocations of the replay returned, in order
    balanceResponse, \* part_005:1157  how the API answered the contract-balance request
    version,         \* the text of the helper that runs
    warnings,        \* the warnings and skip notices the running helper logged, in order
    req,             \* the request a protected route received
    feeTx,           \* how the ledger reports the usage-fee transaction, poll by poll
    effects,         \* what the middleware chain did to the outside, in order
    poolLimit,       \* part_005:872  asyncPool(poolLimit, array, iteratorFn)
    array,           \* part_005:872
    executing,       \* part_005:874  places in ret of the promises in the executing array
    ret              \* part_005:873  per item passed by the loop: the item and its promise

nftVars == <<ledger, stakedData, unstakedData, allTransactions, foldIdx,
             stakedNfts, contractLabel, rawStakedEvents, validNftIds, returned>>

esdtVars == <<userBalances, totalStaked, contractBalance, balanceResponse>>

pageVars == <<collector, from, currentBatchSize, requests>>

ownerVars == <<tokensNumber, includeSmartContracts, batch, addressesArr, latency, issued,
               version>>

retryVars == <<server, attempts, backoff, delay, clock, calls, thrown>>

drawVars == <<route, body, pool, decimals, response>>

feeVars == <<req, feeTx, effects>>

poolVars == <<poolLimit, array, executing, ret>>

farVars == <<feeVars, poolVars>>

\* what the helpers of the staked-NFT replay leave alone
notNft == <<esdtVars, pageVars, ownerVars, retryVars, drawVars, previous, warnings, farVars>>

(***************************************************************************)
(* Bounds of the model.                                                    *)
(***************************************************************************)
\* longest transfer history of the staking contract
MaxEvents == 3
\* most records a paginated listing holds
MaxRecords == 7
\* records per page of the inventory endpoint: stands for batchSize 500 of
\* fetchScNfts, scaled down
ScPageSize == 1
\* most NFTs the count endpoint reports for a collection
MaxTokens == 5
\* NFTs per page of the collection listing: stands for MAX_SIZE = 100 of
\* fetchNftOwnersInBatches, scaled down
MAX_SIZE == 2
\* attempts of one fetchWithRetry the API answers freely; it answers every
\* later attempt the same way
MaxScript == 3
\* seconds between an answer and the date of its Retry-After header
RetryAfterDateSecs == 5
\* longest list of balance records a draw is made from
MaxPool == 3
\* largest numberOfWinners of a request body
MaxWinners == 3
\* invocations of one replay on the same history
MaxInvocations == 2
\* records per page of the transfers endpoint: stands for size=1000 of the
\* request URLs and batchSize of fetchAllTransactions, scaled down
PageSize == 2

\* block timestamps (unix seconds) of the model's ledger
Times == 1..3

(***************************************************************************)
(* The staking profile of one contract label and the ledger's vocabulary.  *)
(***************************************************************************)
contractAddress == "erd1qqq-contract"
stakeFunction == "stake"
collectionTicker == "COLL"
Addr1 == "erd1-addr1"
Addr2 == "erd1-addr2"
Users == {Addr1, Addr2}
Id1 == "COLL-01"
Id2 == "COLL-02"
Ids == {Id1, Id2}

Transfer(c, i) == [collection |-> c, identifier |-> i]

Tx(t, f, s, r, st, tr) ==
    [timestamp |-> t, function |-> f, sender |-> s, receiver |-> r,
     status |-> st, transfers |-> tr]

\* The transactions the ledger of the model may hold: stakes of both users,
\* transfer-backs by the contract, and the records the filters are there for.
NftTxSet ==
    {Tx(t, stakeFunction, u, contractAddress, "success", <<Transfer(collectionTicker, Id1)>>) :
        t \in Times, u \in Users}
    \cup {Tx(t, stakeFunction, Addr1, contractAddress, "success", <<Transfer(collectionTicker, Id2)>>) :
        t \in Times}
    \cup {Tx(t, "ESDTNFTTransfer", contractAddress, Addr1, "success", <<Transfer(collectionTicker, Id1)>>) :
        t \in Times}
    \cup {Tx(1, stakeFunction, Addr2, contractAddress, "fail", <<Transfer(collectionTicker, Id1)>>),
          Tx(2, "ESDTNFTTransfer", Addr2, contractAddress, "success", <<Transfer(collectionTicker, Id1)>>),
          Tx(1, stakeFunction, Addr2, contractAddress, "success", <<Transfer("OTHER", "OTHER-01")>>),
          Tx(2, "claimRewards", Addr1, contractAddress, "success", <<Transfer(collectionTicker, Id2)>>),
          Tx(2, stakeFunction, contractAddress, Addr2, "success", <<Transfer(collectionTicker, Id2)>>),
          Tx(1, stakeFunction, Addr2, contractAddress, "success",
             <<Transfer(collectionTicker, Id1), Transfer(collectionTicker, Id2)>>)}

RECURSIVE SeqsUpTo(_, _)
SeqsUpTo(S, n) ==
    IF n = 0 THEN {<<>>}
    ELSE LET shorter == SeqsUpTo(S, n - 1)
         IN  shorter \cup {Append(s, x) : s \in {q \in shorter : Len(q) = n - 1}, x \in S}

(***************************************************************************)
(* The transfers endpoint: GET /accounts/{contract}/transfers              *)
(***************************************************************************)
Min(a, b) == IF a < b THEN a ELSE b

\* one page of a listing: `size` records starting at `offset`
ApiPage(source, offset, size) == SubSeq(source, offset + 1, Min(offset + size, Len(source)))

\* the listing restricted by the function= query parameter
ByFunction(source, f) == SelectSeq(source, LAMBDA tx : tx.function = f)

OnlySuccess(txs) == SelectSeq(txs, LAMBDA tx : tx.status = "success")

(***************************************************************************)
(* Array.prototype.sort((a, b) => Number(a.timestamp) - Number(b.timestamp)) *)
(* The sort is stable: records of equal timestamp keep their array order.  *)
(***************************************************************************)
InsertByTimestamp(sorted, tx) ==
    LET k == Cardinality({i \in 1..Len(sorted) : sorted[i].timestamp <= tx.timestamp})
    IN  SubSeq(sorted, 1, k) \o <<tx>> \o SubSeq(sorted, k + 1, Len(sorted))

RECURSIVE SortByTimestamp(_)
SortByTimestamp(txs) ==
    IF txs = <<>> THEN <<>>
    ELSE InsertByTimestamp(SortByTimestamp(SubSeq(txs, 1, Len(txs) - 1)), txs[Len(txs)])

(***************************************************************************)
(* A JavaScript Map, kept as the sequence of its entries in insertion      *)
(* order.                                                                  *)
(***************************************************************************)
MapHas(m, k) == \E i \in 1..Len(m) : m[i].identifier = k

\* a set that keeps the entry a key already has
MapSetKeepFirst(m, k, v) == IF MapHas(m, k) THEN m ELSE Append(m, v)

MapSet(m, k, v) ==
    IF MapHas(m, k)
    THEN [i \in 1..Len(m) |-> IF m[i].identifier = k THEN v ELSE m[i]]
    ELSE Append(m, v)

MapDelete(m, k) == SelectSeq(m, LAMBDA e : e.identifier # k)

(***************************************************************************)
(* fetchStakedNfts of src/index.js: the fold over the sorted array.        *)
(***************************************************************************)
CollectionTransfers(tx) ==
    SelectSeq(tx.transfers, LAMBDA tr : tr.collection = collectionTicker)

\* a transfer-back branch without its guard on the sender
NftApplyTransferAnySender(m, tx, item) ==
    IF tx.function = stakeFunction
    THEN MapSet(m, item.identifier, [owner |-> tx.sender, identifier |-> item.identifier])
    ELSE IF tx.function = "ESDTNFTTransfer"
         THEN MapDelete(m, item.identifier)
         ELSE m

\* the transfer-back guard put on the receiver instead of the sender
NftApplyTransferByReceiver(m, tx, item) ==
    IF tx.function = stakeFunction
    THEN MapSet(m, item.identifier, [owner |-> tx.sender, identifier |-> item.identifier])
    ELSE IF tx.function = "ESDTNFTTransfer" /\ tx.receiver = contractAddress
         THEN MapDelete(m, item.identifier)
         ELSE m

\* index.js:876-887, the body of transfers.forEach for one transfer
NftApplyTransfer(m, tx, item) ==
    IF tx.function = stakeFunction
    THEN MapSet(m, item.identifier, [owner |-> tx.sender, identifier |-> item.identifier])
    ELSE IF tx.function = "ESDTNFTTransfer" /\ tx.sender = contractAddress
         THEN MapDelete(m, item.identifier)
         ELSE m

RECURSIVE NftApplyTransfers(_, _, _)
NftApplyTransfers(m, tx, items) ==
    IF items = <<>> THEN m
    ELSE NftApplyTransfers(NftApplyTransfer(m, tx, Head(items)), tx, Tail(items))

\* index.js:871-888, the body of allTransactions.forEach for one transaction
NftApplyTx(m, tx) == NftApplyTransfers(m, tx, CollectionTransfers(tx))

RECURSIVE NftFold(_, _)
NftFold(m, txs) ==
    IF txs = <<>> THEN m ELSE NftFold(NftApplyTx(m, Head(txs)), Tail(txs))

\* the replay of index.js:868-890 on one fetched array
NftReplay(fetched) == NftFold(<<>>, SortByTimestamp(fetched))

EsdtIdle ==
    /\ userBalances = <<>>
    /\ totalStaked = 0
    /\ contractBalance = <<>>
    /\ balanceResponse = "none"

PagesIdle ==
    /\ collector = "none"
    /\ from = 0
    /\ currentBatchSize = 0
    /\ requests = <<>>

FeeIdle ==
    /\ req = <<>>
    /\ feeTx = <<>>
    /\ effects = <<>>

PoolIdle ==
    /\ poolLimit = 0
    /\ array = <<>>
    /\ executing = {}
    /\ ret = <<>>

FarIdle == FeeIdle /\ PoolIdle

DrawIdle ==
    /\ route = "none"
    /\ body = <<>>
    /\ pool = <<>>
    /\ decimals = 0
    /\ response = <<>>

RetryIdle ==
    /\ server = <<>>
    /\ attempts = 0
    /\ backoff = 0
    /\ delay = 0
    /\ clock = 0
    /\ calls = <<>>
    /\ thrown = <<>>

OwnersIdle ==
    /\ latency = 0
    /\ issued = {}
    /\ tokensNumber = 0
    /\ includeSmartContracts = FALSE
    /\ batch = <<>>
    /\ addressesArr = <<>>
    /\ version = "none"

NftIdle ==
    /\ stakedData = <<>>
    /\ unstakedData = <<>>
    /\ allTransactions = <<>>
    /\ foldIdx = 0
    /\ stakedNfts = <<>>
    /\ contractLabel = "none"
    /\ rawStakedEvents = <<>>
    /\ validNftIds = {}
    /\ returned = <<>>

\* index.js:812-817 and part_005:934-939
contractAddresses ==
    [oneDexStakedNfts |-> "erd1qqq-onedex", xoxnoStakedNfts |-> contractAddress,
     artCpaStakedNfts |-> "erd1qqq-artcpa", hodlFounderNfts |-> "erd1qqq-hodl"]

\* index.js:819-824 and part_005:941-946
stakingFunctions ==
    [oneDexStakedNfts |-> "userStake", xoxnoStakedNfts |-> stakeFunction,
     artCpaStakedNfts |-> "userStake", hodlFounderNfts |-> "stake"]

\* a label that is taken whatever the tables hold
LabelUnchecked(label) == TRUE

\* index.js:826-829 and part_005:948-951, the negation of
\* !contractAddress || !stakeFunction
LabelSupported(label) ==
    label \in DOMAIN contractAddresses /\ label \in DOMAIN stakingFunctions

\* the labels a request may carry: the profile the ledger of the model
\* belongs to, a label of another spelling, and none
Labels == {"xoxnoStakedNfts", "hodlFounderNFTs", "undefined"}

InitNft ==
    /\ pc = "start"
    /\ previous = <<>>
    /\ warnings = <<>>
    /\ FarIdle
    /\ ledger \in SeqsUpTo(NftTxSet, MaxEvents)
    /\ stakedData = <<>>
    /\ unstakedData = <<>>
    /\ allTransactions = <<>>
    /\ foldIdx = 0
    /\ stakedNfts = <<>>
    /\ contractLabel \in Labels
    /\ rawStakedEvents = <<>>
    /\ validNftIds = {}
    /\ returned = <<>>
    /\ EsdtIdle
    /\ PagesIdle
    /\ OwnersIdle
    /\ RetryIdle
    /\ DrawIdle

\* index.js:851-856 and 861-866, the filter callbacks log every fetched
\* record whose status is not success
SkipNotices(page, notice) ==
    LET failed == SelectSeq(page, LAMBDA tx : tx.status # "success")
    IN  [i \in 1..Len(failed) |-> [kind |-> notice, subject |-> failed[i].sender]]

\* index.js:829-831 and part_005:951-953, thrown before the try block
UnsupportedLabel ==
    /\ pc = "start"
    /\ ~LabelSupported(contractLabel)
    /\ pc' = "unsupported"
    /\ UNCHANGED nftVars
    /\ UNCHANGED notNft

\* index.js:849-856
IdxFetchStaked ==
    /\ pc = "start"
    /\ LabelSupported(contractLabel)
    /\ stakedData' = OnlySuccess(ApiPage(ByFunction(ledger, stakeFunction), 0, PageSize))
    /\ warnings' = warnings \o SkipNotices(ApiPage(ByFunction(ledger, stakeFunction), 0, PageSize),
                                           "skipping failed stake transaction")
    /\ pc' = "idxStaked"
    /\ UNCHANGED <<ledger, unstakedData, allTransactions, foldIdx, stakedNfts, contractLabel,
                   rawStakedEvents, validNftIds, returned>>
    /\ UNCHANGED <<esdtVars, pageVars, ownerVars, retryVars, drawVars, previous, farVars>>

\* index.js:859-869
IdxFetchUnstaked ==
    /\ pc = "idxStaked"
    /\ unstakedData' = OnlySuccess(ApiPage(ByFunction(ledger, "ESDTNFTTransfer"), 0, PageSize))
    /\ allTransactions' = SortByTimestamp(stakedData \o unstakedData')
    /\ warnings' = warnings \o SkipNotices(ApiPage(ByFunction(ledger, "ESDTNFTTransfer"), 0, PageSize),
                                           "skipping failed unstake transaction")
    /\ pc' = "idxFold"
    /\ UNCHANGED <<ledger, stakedData, foldIdx, stakedNfts, contractLabel, rawStakedEvents,
                   validNftIds, returned>>
    /\ UNCHANGED <<esdtVars, pageVars, ownerVars, retryVars, drawVars, previous, farVars>>

\* index.js:836-839, a fetch that answers with a status that is not ok
IdxFetchFails ==
    /\ pc \in {"start", "idxStaked"}
    /\ LabelSupported(contractLabel)
    /\ pc' = "thrown"
    /\ UNCHANGED nftVars
    /\ UNCHANGED notNft

\* index.js:871-888, one iteration of allTransactions.forEach
IdxFoldStep ==
    /\ pc = "idxFold"
    /\ foldIdx < Len(allTransactions)
    /\ stakedNfts' = NftApplyTx(stakedNfts, allTransactions[foldIdx + 1])
    /\ foldIdx' = foldIdx + 1
    /\ UNCHANGED <<pc, ledger, stakedData, unstakedData, allTransactions, contractLabel,
                   rawStakedEvents, validNftIds, returned>>
    /\ UNCHANGED notNft

\* index.js:890
IdxReturn ==
    /\ pc = "idxFold"
    /\ foldIdx = Len(allTransactions)
    /\ returned' = stakedNfts
    /\ pc' = "idxDone"
    /\ UNCHANGED <<ledger, stakedData, unstakedData, allTransactions, foldIdx,
                   stakedNfts, contractLabel, rawStakedEvents, validNftIds>>
    /\ UNCHANGED notNft

\* a map that outlives the call
KeptStakedNfts(left) == left

\* index.js:833, const stakedNfts = new Map(): the map of a call is empty at
\* its start, whatever map the call before it left
NewStakedNfts(left) == <<>>

\* index.js:811-833, fetchStakedNfts is called again for the same contract,
\* the API reporting the same history
IdxInvokeAgain ==
    /\ pc = "idxDone"
    /\ Len(previous) + 1 < MaxInvocations
    /\ previous' = Append(previous, returned)
    /\ stakedNfts' = NewStakedNfts(stakedNfts)
    /\ stakedData' = <<>>
    /\ unstakedData' = <<>>
    /\ allTransactions' = <<>>
    /\ foldIdx' = 0
    /\ returned' = <<>>
    /\ pc' = "start"
    /\ UNCHANGED <<ledger, contractLabel, rawStakedEvents, validNftIds>>
    /\ warnings' = <<>>
    /\ UNCHANGED <<esdtVars, pageVars, ownerVars, retryVars, drawVars, farVars>>

(***************************************************************************)
(* fetchStakedNfts of src/unnamed/part_005: staking events of the whole    *)
(* history, validated against the contract's inventory.                    *)
(***************************************************************************)
\* a loop that goes on until a page comes back empty
LoopAgainUntilEmpty(size, batchSize) == size > 0

\* part_005:906 / 926, while (currentBatchSize === batchSize)
LoopAgain(size, batchSize) == size = batchSize

\* part_005:890-909, the do-while loop from offset `offset` on
RECURSIVE CollectFrom(_, _)
CollectFrom(source, offset) ==
    LET transactions == ApiPage(source, offset, PageSize)
    IN  IF LoopAgain(Len(transactions), PageSize)
        THEN transactions \o CollectFrom(source, offset + PageSize)
        ELSE transactions

fetchAllTransactions(source) == CollectFrom(source, 0)

\* part_005:958-960
SuccessfulTxs(txs) == SortByTimestamp(OnlySuccess(txs))

\* part_005:968-980, the events one transaction contributes
RawEventsOfTx(tx) ==
    IF tx.function = stakeFunction
    THEN LET transfers == CollectionTransfers(tx)
         IN  [i \in 1..Len(transfers) |->
                [timestamp |-> tx.timestamp, function |-> tx.function,
                 identifier |-> transfers[i].identifier, sender |-> tx.sender]]
    ELSE <<>>

RECURSIVE RawStakedEvents(_)
RawStakedEvents(txs) ==
    IF txs = <<>> THEN <<>>
    ELSE RawEventsOfTx(Head(txs)) \o RawStakedEvents(Tail(txs))

\* every raw event kept, whatever the contract holds
ValidatedResultsUnchecked(events, valid) ==
    [i \in 1..Len(events) |-> [owner |-> events[i].sender, identifier |-> events[i].identifier]]

\* part_005:997-998
ValidatedResults(events, valid) ==
    LET kept == SelectSeq(events, LAMBDA e : e.identifier \in valid)
    IN  [i \in 1..Len(kept) |-> [owner |-> kept[i].sender, identifier |-> kept[i].identifier]]

\* part_005:1002, new Map(entries): one set per entry, in order
RECURSIVE MapFromEntries(_, _)
MapFromEntries(m, nfts) ==
    IF nfts = <<>> THEN m
    ELSE MapFromEntries(MapSet(m, Head(nfts).identifier, Head(nfts)), Tail(nfts))

DedupedNfts(validated) == MapFromEntries(<<>>, validated)

\* part_005:955-981
P5CollectEvents ==
    /\ pc = "start"
    /\ LabelSupported(contractLabel)
    /\ allTransactions' = fetchAllTransactions(ledger)
    /\ rawStakedEvents' = RawStakedEvents(SuccessfulTxs(allTransactions'))
    /\ pc' = "p5Events"
    /\ UNCHANGED <<ledger, stakedData, unstakedData, foldIdx, stakedNfts, contractLabel,
                   validNftIds, returned>>
    /\ UNCHANGED notNft

\* part_005:991-1004; the inventory is what the contract holds right now
P5Reconcile ==
    /\ pc = "p5Events"
    /\ \E scNfts \in SUBSET Ids :
          /\ validNftIds' = scNfts
          /\ returned' = DedupedNfts(ValidatedResults(rawStakedEvents, scNfts))
    /\ pc' = "p5Done"
    /\ UNCHANGED <<ledger, stakedData, unstakedData, allTransactions, foldIdx,
                   stakedNfts, contractLabel, rawStakedEvents>>
    /\ UNCHANGED notNft

\* part_005:868, a fetchWithRetry of either collection that gives up
P5FetchFails ==
    /\ pc \in {"start", "p5Events"}
    /\ LabelSupported(contractLabel)
    /\ pc' = "thrown"
    /\ UNCHANGED nftVars
    /\ UNCHANGED notNft

NextNft ==
    \/ UnsupportedLabel
    \/ IdxFetchStaked
    \/ IdxFetchUnstaked
    \/ IdxFetchFails
    \/ IdxFoldStep
    \/ IdxReturn
    \/ IdxInvokeAgain
    \/ P5CollectEvents
    \/ P5Reconcile
    \/ P5FetchFails

vars == <<pc, nftVars, esdtVars, pageVars, ownerVars, retryVars, drawVars, previous, warnings, farVars>>

(***************************************************************************)
(* Vocabulary of the claims about the replay.                              *)
(***************************************************************************)
\* every arrival order of one fetched array
PermsOf(s) == {[i \in 1..Len(s) |-> s[p[i]]] : p \in Permutations(1..Len(s))}

TransfersId(tx, id) ==
    \E i \in 1..Len(tx.transfers) :
        /\ tx.transfers[i].collection = collectionTicker
        /\ tx.transfers[i].identifier = id

\* tx is a successful stake of id
IsStakeOf(tx, id) ==
    tx.status = "success" /\ tx.function = stakeFunction /\ TransfersId(tx, id)

\* tx is a successful transfer-back of id sent by the staking contract
IsTransferBackOf(tx, id) ==
    /\ tx.status = "success"
    /\ tx.function = "ESDTNFTTransfer"
    /\ tx.sender = contractAddress
    /\ TransfersId(tx, id)

EntriesOf(list, id) == {i \in 1..Len(list) : list[i].identifier = id}

\* the mapping a returned list stands for, whatever the order of its entries
HolderState(list) == {list[i] : i \in 1..Len(list)}

\* C1: feeding the fetched events to the replay in any arrival order yields
\* the result of feeding them in natural array order (src/index.js).
C1_OrderInvariance ==
    pc = "idxDone" =>
        \A arrival \in PermsOf(stakedData \o unstakedData) :
            HolderState(NftReplay(arrival)) = HolderState(returned)

\* C3: an identifier whose last applied event, in the order of the fold, is a
\* transfer-back sent by the staking contract is absent from the list that
\* fetchStakedNfts of src/index.js returns.
C3_UnstakedAbsent ==
    pc = "idxDone" =>
        \A id \in Ids :
            (\E i \in 1..Len(allTransactions) :
                /\ IsTransferBackOf(allTransactions[i], id)
                /\ \A j \in (i + 1)..Len(allTransactions) : ~IsStakeOf(allTransactions[j], id))
            => EntriesOf(returned, id) = {}

\* Scenario A: stake of COLL-01 by addr1 at t=1, transfer-back at t=2,
\* replayed to the end with an empty result.
C3_Witness ==
    /\ pc = "idxDone"
    /\ allTransactions =
         <<Tx(1, stakeFunction, Addr1, contractAddress, "success", <<Transfer(collectionTicker, Id1)>>),
           Tx(2, "ESDTNFTTransfer", contractAddress, Addr1, "success", <<Transfer(collectionTicker, Id1)>>)>>
    /\ returned = <<>>

\* txs[j] is a stake of id by another sender than an earlier stake txs[i] of
\* id, no transfer-back of id lies between the two, and nothing is applied
\* to id at or after the time of txs[j]
RestakedBy(txs, id, i, j) ==
    /\ IsStakeOf(txs[i], id)
    /\ IsStakeOf(txs[j], id)
    /\ txs[i].sender # txs[j].sender
    /\ txs[i].timestamp < txs[j].timestamp
    /\ \A k \in 1..Len(txs) :
          /\ IsTransferBackOf(txs[k], id) => txs[k].timestamp < txs[i].timestamp
          /\ (k # j /\ IsStakeOf(txs[k], id)) => txs[k].timestamp < txs[j].timestamp

OwnedOnceBy(list, id, owner) ==
    /\ Cardinality(EntriesOf(list, id)) = 1
    /\ \A e \in EntriesOf(list, id) : list[e].owner = owner

\* C4: when an identifier is staked by two different senders at increasing
\* timestamps with no unstake in between, the entry returned for it names the
\* sender of the later stake and the identifier appears exactly once
\* (src/index.js; part_005 for the identifiers its inventory check keeps).
C4_LastWriteWins ==
    /\ pc = "idxDone" =>
          LET txs == stakedData \o unstakedData
          IN  \A id \in Ids : \A i, j \in 1..Len(txs) :
                RestakedBy(txs, id, i, j) => OwnedOnceBy(returned, id, txs[j].sender)
    /\ pc = "p5Done" =>
          LET txs == OnlySuccess(allTransactions)
          IN  \A id \in validNftIds : \A i, j \in 1..Len(txs) :
                RestakedBy(txs, id, i, j) => OwnedOnceBy(returned, id, txs[j].sender)

\* Scenario B: COLL-02 staked at t=1 and staked again by another sender at
\* t=2; the result holds the identifier once.
C4_Witness ==
    /\ pc = "idxDone"
    /\ LET txs == stakedData \o unstakedData
       IN  \E i, j \in 1..Len(txs) :
             /\ RestakedBy(txs, Id1, i, j)
             /\ OwnedOnceBy(returned, Id1, txs[j].sender)

\* C12: every identifier in the list fetchStakedNfts of part_005 returns is
\* listed in the staking contract's inventory, and no identifier appears in
\* the list more than once.
C12_DedupedSubsetOfInventory ==
    pc = "p5Done" =>
        /\ \A i \in 1..Len(returned) : returned[i].identifier \in validNftIds
        /\ \A id \in Ids : Cardinality(EntriesOf(returned, id)) <= 1

\* two raw stake events of one identifier the contract holds and one of an
\* identifier it does not hold
C12_Witness ==
    /\ pc = "p5Done"
    /\ \E i, j, k \in 1..Len(rawStakedEvents) :
          /\ i # j
          /\ rawStakedEvents[i].identifier = rawStakedEvents[j].identifier
          /\ rawStakedEvents[i].identifier \in validNftIds
          /\ rawStakedEvents[k].identifier \notin validNftIds
    /\ Len(returned) = 1

\* C13: the list fetchStakedNfts of part_005 returns equals the replayed
\* HolderState (stake sets the owner, a transfer-back sent by the contract
\* deletes the entry) restricted to the identifiers of the live inventory.
C13_ReconcileRefinesReplay ==
    pc = "p5Done" =>
        HolderState(returned) =
            {e \in HolderState(NftReplay(OnlySuccess(allTransactions))) :
                e.identifier \in validNftIds}

C24_FoldOrder ==
    pc \in {"idxFold", "idxDone"} =>
        /\ \A i \in 1..(Len(allTransactions) - 1) :
              allTransactions[i].timestamp <= allTransactions[i + 1].timestamp
        /\ \A arrival \in PermsOf(stakedData \o unstakedData) :
              SortByTimestamp(arrival) = allTransactions

\* the part of C24 the sort does give: timestamps never decrease along the
\* folded array
C24_TimestampsAscend ==
    pc \in {"idxFold", "idxDone"} =>
        \A i \in 1..(Len(allTransactions) - 1) :
            allTransactions[i].timestamp <= allTransactions[i + 1].timestamp

\* C25: in the NFT replay a successful transaction whose function is the
\* stake function sets an entry of the holder map only if its receiver is
\* the staking contract address; a stake-named transaction with any other
\* receiver leaves the holder map unchanged.
C25_StakeGuard ==
    [][(pc = "idxFold" /\ foldIdx' = foldIdx + 1)
        => LET tx == allTransactions[foldIdx + 1]
           IN  (tx.function = stakeFunction /\ tx.receiver # contractAddress)
                   => stakedNfts' = stakedNfts]_vars

\* the identifiers a stake transaction writes over an entry the map has
Overwritten(m, tx) ==
    {id \in Ids : tx.function = stakeFunction /\ TransfersId(tx, id) /\ MapHas(m, id)}

\* the warnings a step added
NewWarnings == SubSeq(warnings', Len(warnings) + 1, Len(warnings'))

\* C31: whenever a stake event overwrites an existing entry of the holder
\* map for the same identifier, a duplicate-stake warning is recorded for
\* that event, and no such warning is recorded for a stake on an identifier
\* that has no entry.
C31_DuplicateStakeWarning ==
    [][(pc = "idxFold" /\ foldIdx' = foldIdx + 1)
        => LET tx == allTransactions[foldIdx + 1]
           IN  \A id \in Ids :
                  (id \in Overwritten(stakedNfts, tx))
                     <=> \E i \in 1..Len(NewWarnings) :
                            /\ NewWarnings[i].kind = "duplicate-stake"
                            /\ NewWarnings[i].subject = id]_vars

\* the part of C31 that holds: no duplicate-stake warning is recorded for a
\* stake on an identifier that has no entry
C31_NoFalseWarning ==
    \A i \in 1..Len(warnings) : warnings[i].kind # "duplicate-stake"

\* C8: the arrays that fetchStakedNfts of src/index.js folds hold every
\* successful stake and transfer-back record of the history, also beyond the
\* first page.
C8_CompleteHistory ==
    pc = "idxDone" =>
        /\ stakedData = OnlySuccess(ByFunction(ledger, stakeFunction))
        /\ unstakedData = OnlySuccess(ByFunction(ledger, "ESDTNFTTransfer"))

SpecNft == InitNft /\ [][NextNft]_vars

(***************************************************************************)
(* fetchStakedEsdts of src/unnamed/part_005: balances replayed from the    *)
(* token transfers of the staking contract.                                *)
(***************************************************************************)
token == "TOKEN-abc"

\* decimal strings, as the sequences of their characters
Digits == <<"0", "1", "2", "3", "4", "5", "6", "7", "8", "9">>
DigitValue(c) == (CHOOSE d \in 1..10 : Digits[d] = c) - 1

\* the string holds decimal digits only
IsDigits(str) == \A k \in 1..Len(str) : \E d \in 1..10 : Digits[d] = str[k]

\* BigInt(string) of a string of decimal digits; BigInt("") is 0n
RECURSIVE ParseBigInt(_)
ParseBigInt(str) ==
    IF str = <<>> THEN 0
    ELSE 10 * ParseBigInt(SubSeq(str, 1, Len(str) - 1)) + DigitValue(str[Len(str)])

\* BigInt.prototype.toString() of a value that is not negative
RECURSIVE BigIntToString(_)
BigIntToString(n) ==
    IF n < 10 THEN <<Digits[n + 1]>>
    ELSE BigIntToString(n \div 10) \o <<Digits[(n % 10) + 1]>>

V30 == <<"3", "0">>
V50 == <<"5", "0">>
V100 == <<"1", "0", "0">>

TokenTransfer(tk, v) == [token |-> tk, value |-> v]

EsdtStake(t, u, v) ==
    Tx(t, "stake", u, contractAddress, "success", <<TokenTransfer(token, v)>>)

EsdtTransferBack(t, u, v) ==
    Tx(t, "ESDTTransfer", contractAddress, u, "success", <<TokenTransfer(token, v)>>)

\* The token transfers the ledger of the model may hold.
EsdtTxSet ==
    {EsdtStake(t, Addr1, v) : t \in {1, 2}, v \in {V30, V50, V100}}
    \cup {EsdtTransferBack(t, Addr1, v) : t \in {2, 3}, v \in {V30, V100}}
    \cup {EsdtStake(1, Addr2, V50),
          EsdtTransferBack(2, Addr2, V30),
          Tx(3, "userStake", Addr2, contractAddress, "success", <<TokenTransfer(token, V30)>>),
          Tx(1, "stake", Addr2, contractAddress, "fail", <<TokenTransfer(token, V100)>>),
          Tx(2, "stake", Addr2, contractAddress, "success", <<TokenTransfer(token, <<"0">>)>>),
          Tx(2, "stake", Addr2, Addr1, "success", <<TokenTransfer(token, V100)>>),
          Tx(1, "ESDTTransfer", Addr2, contractAddress, "success", <<TokenTransfer(token, V100)>>),
          Tx(3, "stake", Addr1, contractAddress, "success",
             <<TokenTransfer("OTHER-123", V100), TokenTransfer(token, V30),
               TokenTransfer(token, V50)>>),
          Tx(1, "claimRewards", Addr1, contractAddress, "success", <<>>),
          Tx(2, "claimRewards", contractAddress, Addr1, "success", <<TokenTransfer(token, V30)>>),
          EsdtStake(2, Addr1, <<"1", ".", "5">>)}

\* userBalances[user], undefined read as absent
HasBalance(balances, user) == \E i \in 1..Len(balances) : balances[i].address = user

BalanceOf(balances, user) ==
    IF HasBalance(balances, user)
    THEN (CHOOSE e \in {balances[i] : i \in 1..Len(balances)} : e.address = user).balance
    ELSE 0

\* userBalances[user] = value; a new key goes last
SetBalance(balances, user, value) ==
    IF HasBalance(balances, user)
    THEN [i \in 1..Len(balances) |->
            IF balances[i].address = user THEN [address |-> user, balance |-> value]
            ELSE balances[i]]
    ELSE Append(balances, [address |-> user, balance |-> value])

\* part_005:1078, transfers.find(t => t.token === token || t.ticker === token)
RelevantTransfers(tx) == SelectSeq(tx.transfers, LAMBDA t : t.token = token)

\* part_005:1084-1114 with the clamp left out: the balance goes negative
EsdtApplyAmountNoClamp(st, tx, amount) ==
    IF tx.function \in {"stake", "userStake"} /\ tx.receiver = contractAddress
    THEN [balances |-> SetBalance(st.balances, tx.sender, BalanceOf(st.balances, tx.sender) + amount),
          total |-> st.total + amount]
    ELSE IF tx.function = "ESDTTransfer" /\ tx.sender = contractAddress
         THEN [balances |-> SetBalance(st.balances, tx.receiver,
                                       BalanceOf(st.balances, tx.receiver) - amount),
               total |-> st.total - amount]
         ELSE st

\* part_005:1084-1114 with a stake that assigns instead of adding
EsdtApplyAmountAssign(st, tx, amount) ==
    IF tx.function \in {"stake", "userStake"} /\ tx.receiver = contractAddress
    THEN [balances |-> SetBalance(st.balances, tx.sender, amount),
          total |-> st.total + amount]
    ELSE IF tx.function = "ESDTTransfer" /\ tx.sender = contractAddress
         THEN LET user == tx.receiver
                  held == BalanceOf(st.balances, user)
              IN  IF held >= amount
                  THEN [balances |-> SetBalance(st.balances, user, held - amount),
                        total |-> st.total - amount]
                  ELSE [balances |-> SetBalance(st.balances, user, 0),
                        total |-> st.total - held]
         ELSE st

\* part_005:1084-1114 with every function that is no transfer-back taken as a
\* stake
EsdtApplyAmountAnyFunction(st, tx, amount) ==
    IF tx.function = "ESDTTransfer" /\ tx.sender = contractAddress
    THEN LET user == tx.receiver
             held == BalanceOf(st.balances, user)
         IN  IF held >= amount
             THEN [balances |-> SetBalance(st.balances, user, held - amount),
                   total |-> st.total - amount]
             ELSE [balances |-> SetBalance(st.balances, user, 0),
                   total |-> st.total - held]
    ELSE [balances |-> SetBalance(st.balances, tx.sender, BalanceOf(st.balances, tx.sender) + amount),
          total |-> st.total + amount]

\* part_005:1084-1114 with a clamp that takes the whole amount off the total
EsdtApplyAmountClampTotal(st, tx, amount) ==
    IF tx.function \in {"stake", "userStake"} /\ tx.receiver = contractAddress
    THEN [balances |-> SetBalance(st.balances, tx.sender, BalanceOf(st.balances, tx.sender) + amount),
          total |-> st.total + amount]
    ELSE IF tx.function = "ESDTTransfer" /\ tx.sender = contractAddress
         THEN LET user == tx.receiver
                  held == BalanceOf(st.balances, user)
              IN  [balances |-> SetBalance(st.balances, user, IF held >= amount THEN held - amount ELSE 0),
                   total |-> st.total - amount]
         ELSE st

\* part_005:1078 with every matching entry of the transfer list counted
EsdtApplyTxEveryMatch(st, tx) ==
    IF RelevantTransfers(tx) = <<>> THEN st
    ELSE LET values == [i \in 1..Len(RelevantTransfers(tx)) |->
                           ParseBigInt(RelevantTransfers(tx)[i].value)]
             amount == values[1] + (IF Len(values) > 1 THEN values[2] ELSE 0)
         IN  IF amount = 0 THEN st
             ELSE IF tx.function \in {"stake", "userStake"} /\ tx.receiver = contractAddress
             THEN [balances |-> SetBalance(st.balances, tx.sender,
                                           BalanceOf(st.balances, tx.sender) + amount),
                   total |-> st.total + amount]
             ELSE st

\* part_005:1084-1114, the two cases for a transfer of `amount`
EsdtApplyAmount(st, tx, amount) ==
    IF tx.function \in {"stake", "userStake"} /\ tx.receiver = contractAddress
    THEN LET user == tx.sender
         IN  [balances |-> SetBalance(st.balances, user, BalanceOf(st.balances, user) + amount),
              total |-> st.total + amount]
    ELSE IF tx.function = "ESDTTransfer" /\ tx.sender = contractAddress
         THEN LET user == tx.receiver
                  held == BalanceOf(st.balances, user)
              IN  IF held >= amount
                  THEN [balances |-> SetBalance(st.balances, user, held - amount),
                        total |-> st.total - amount]
                  ELSE [balances |-> SetBalance(st.balances, user, 0),
                        total |-> st.total - held]
         ELSE st

\* part_005:1070-1118, the body of successfulTxs.forEach for one transaction
EsdtApplyTx(st, tx) ==
    IF tx.transfers = <<>> THEN st
    ELSE IF RelevantTransfers(tx) = <<>> THEN st
    ELSE LET amount == ParseBigInt(Head(RelevantTransfers(tx)).value)
         IN  IF amount = 0 THEN st ELSE EsdtApplyAmount(st, tx, amount)

\* part_005:1110, console.warn of the transfer-back that the balance does
\* not cover
EsdtWarnings(st, tx) ==
    IF tx.transfers = <<>> \/ RelevantTransfers(tx) = <<>> THEN <<>>
    ELSE LET amount == ParseBigInt(Head(RelevantTransfers(tx)).value)
         IN  IF /\ amount # 0
                /\ ~(tx.function \in {"stake", "userStake"} /\ tx.receiver = contractAddress)
                /\ tx.function = "ESDTTransfer"
                /\ tx.sender = contractAddress
                /\ BalanceOf(st.balances, tx.receiver) < amount
             THEN <<[kind |-> "unstaking would result in negative balance",
                     subject |-> tx.receiver]>>
             ELSE <<>>

\* part_005:1081, BigInt(relevantTransfer.value || '0') throws a SyntaxError
\* on a string that is no integer
BigIntThrows(tx) ==
    /\ RelevantTransfers(tx) # <<>>
    /\ ~IsDigits(Head(RelevantTransfers(tx)).value)

\* part_005:1135-1140
EsdtStakedData(balances) ==
    LET positive == SelectSeq(balances, LAMBDA e : e.balance > 0)
    IN  [i \in 1..Len(positive) |->
            [address |-> positive[i].address, balance |-> BigIntToString(positive[i].balance)]]

\* a reconciliation that drops the replayed balances the contract does not
\* cover
ReconcileBalancesCovered(balances, total, held) ==
    IF total > held THEN <<>> ELSE balances

\* part_005:1127-1132: the two branches of the comparison of contractBalance
\* with totalStaked log the difference; userBalances is as it was
ReconcileBalances(balances, total, held) == balances

\* the balances the contract's token balance endpoint may report
ContractBalances == {<<"0">>, V50, V100}

\* part_005:1154, how the endpoint may answer: with a balance, with 404, with
\* another status that is not ok, or not at all (fetch rejects)
BalanceAnswers ==
    [status : {"200"}, balance : ContractBalances]
        \cup [status : {"404", "500", "network error"}, balance : {<<>>}]

\* part_005:1152-1171: "0" for a 404 and, from the catch block, for every
\* error
fetchContractTokenBalance(answer) ==
    IF answer.status = "404" THEN <<"0">>
    ELSE IF answer.status # "200" THEN <<"0">>
    ELSE answer.balance

\* what the helpers of the staked-token replay leave alone
notEsdt == <<stakedData, unstakedData, stakedNfts, contractLabel, rawStakedEvents, validNftIds, pageVars, ownerVars, retryVars, drawVars, previous, warnings, farVars>>

InitEsdt ==
    /\ pc = "start"
    /\ previous = <<>>
    /\ warnings = <<>>
    /\ FarIdle
    /\ ledger \in SeqsUpTo(EsdtTxSet, MaxEvents)
    /\ NftIdle
    /\ EsdtIdle
    /\ PagesIdle
    /\ OwnersIdle
    /\ RetryIdle
    /\ DrawIdle

\* part_005:1055-1067
EsdtFetchTransactions ==
    /\ pc = "start"
    /\ allTransactions' = SuccessfulTxs(fetchAllTransactions(ledger))
    /\ pc' = "esdtFold"
    /\ UNCHANGED <<ledger, foldIdx, returned, esdtVars>>
    /\ UNCHANGED notEsdt

\* part_005:868, the fetchWithRetry of a transaction page gives up
EsdtFetchFails ==
    /\ pc = "start"
    /\ pc' = "thrown"
    /\ UNCHANGED <<ledger, allTransactions, foldIdx, returned, esdtVars>>
    /\ UNCHANGED notEsdt

\* part_005:1070-1118, one iteration of successfulTxs.forEach
EsdtFoldStep ==
    /\ pc = "esdtFold"
    /\ foldIdx < Len(allTransactions)
    /\ ~BigIntThrows(allTransactions[foldIdx + 1])
    /\ LET st == EsdtApplyTx([balances |-> userBalances, total |-> totalStaked],
                             allTransactions[foldIdx + 1])
       IN  /\ userBalances' = st.balances
           /\ totalStaked' = st.total
    /\ warnings' = warnings \o EsdtWarnings([balances |-> userBalances, total |-> totalStaked],
                                            allTransactions[foldIdx + 1])
    /\ foldIdx' = foldIdx + 1
    /\ UNCHANGED <<pc, ledger, allTransactions, returned, contractBalance, balanceResponse>>
    /\ UNCHANGED <<stakedData, unstakedData, stakedNfts, contractLabel, rawStakedEvents,
                   validNftIds, pageVars, ownerVars, retryVars, drawVars, previous, farVars>>

\* part_005:1081 and 1145-1148, BigInt throws inside forEach; the catch of
\* fetchStakedEsdts logs the error and throws it again
EsdtFoldThrows ==
    /\ pc = "esdtFold"
    /\ foldIdx < Len(allTransactions)
    /\ BigIntThrows(allTransactions[foldIdx + 1])
    /\ pc' = "foldThrown"
    /\ UNCHANGED <<ledger, allTransactions, foldIdx, returned, esdtVars>>
    /\ UNCHANGED notEsdt

\* part_005:1120-1143; fetchContractTokenBalance (1152-1171) answers "0"
\* for a 404 and for every error
EsdtReturn ==
    /\ pc = "esdtFold"
    /\ foldIdx = Len(allTransactions)
    /\ \E answer \in BalanceAnswers :
          /\ balanceResponse' = answer.status
          /\ contractBalance' = fetchContractTokenBalance(answer)
    /\ returned' = EsdtStakedData(ReconcileBalances(userBalances, totalStaked,
                                                    ParseBigInt(contractBalance')))
    /\ pc' = "esdtDone"
    /\ UNCHANGED <<ledger, allTransactions, foldIdx, userBalances, totalStaked>>
    /\ UNCHANGED notEsdt

\* balances that outlive the call
KeptUserBalances(left) == left

\* part_005:1066, const userBalances = {}: the balances of a call are empty
\* at its start, whatever the call before it left
NewUserBalances(left) == <<>>

\* part_005:1046-1067, fetchStakedEsdts is called again for the same token
\* and contract, the API reporting the same history
EsdtInvokeAgain ==
    /\ pc = "esdtDone"
    /\ Len(previous) + 1 < MaxInvocations
    /\ previous' = Append(previous, returned)
    /\ userBalances' = NewUserBalances(userBalances)
    /\ totalStaked' = 0
    /\ contractBalance' = <<>>
    /\ balanceResponse' = "none"
    /\ allTransactions' = <<>>
    /\ foldIdx' = 0
    /\ returned' = <<>>
    /\ pc' = "start"
    /\ UNCHANGED ledger
    /\ UNCHANGED <<stakedData, unstakedData, stakedNfts, contractLabel, rawStakedEvents,
                   validNftIds, pageVars, ownerVars, retryVars, drawVars, farVars>>
    /\ warnings' = <<>>

NextEsdt ==
    \/ EsdtInvokeAgain
    \/ EsdtFetchTransactions
    \/ EsdtFetchFails
    \/ EsdtFoldStep
    \/ EsdtFoldThrows
    \/ EsdtReturn

SpecEsdt == InitEsdt /\ [][NextEsdt]_vars

\* C22: running the replay again on the same ordered event set returns what
\* the earlier invocation returned: nothing the earlier invocation computed
\* (holder map, balances, totals) changes the result of the later one.
C22_ReplayIdempotent ==
    pc \in {"idxDone", "esdtDone"} =>
        \A i \in 1..Len(previous) : previous[i] = returned

\* a second invocation has returned balances, having started from the
\* balances and the total the first one left
C22_Witness ==
    /\ pc = "esdtDone"
    /\ Len(previous) = 1
    /\ returned # <<>>
    /\ previous[1] = returned
    /\ totalStaked > 0

\* C26: a transfer-function transaction (ESDTNFTTransfer in the NFT replay,
\* ESDTTransfer in the fungible replay) whose sender is not the staking
\* contract address deletes no entry of the holder map and reduces no
\* balance.
C26_UnstakeGuard ==
    [][/\ (pc = "idxFold" /\ foldIdx' = foldIdx + 1)
          => LET tx == allTransactions[foldIdx + 1]
             IN  (tx.function = "ESDTNFTTransfer" /\ tx.sender # contractAddress)
                     => \A id \in Ids : MapHas(stakedNfts, id) => MapHas(stakedNfts', id)
       /\ (pc = "esdtFold" /\ foldIdx' = foldIdx + 1)
          => LET tx == allTransactions[foldIdx + 1]
             IN  (tx.function = "ESDTTransfer" /\ tx.sender # contractAddress)
                     => \A user \in Users \cup {contractAddress} :
                           BalanceOf(userBalances', user) >= BalanceOf(userBalances, user)
      ]_vars

\* an ESDTNFTTransfer of a staked NFT that a user sent has been folded, and
\* the NFT is still in the holder map
C26_Witness ==
    /\ pc = "idxFold"
    /\ foldIdx >= 2
    /\ LET tx == allTransactions[foldIdx]
       IN  /\ tx.function = "ESDTNFTTransfer"
           /\ tx.sender # contractAddress
           /\ TransfersId(tx, Id1)
    /\ MapHas(stakedNfts, Id1)

\* C29: during fetchStakedEsdts a failed HTTP fetch of an input it reads (a
\* transaction page or the contract's current token balance) makes the
\* operation reject with that error instead of continuing with a
\* substituted value.
C29_FetchErrorsPropagate ==
    balanceResponse \in {"500", "network error"} => pc = "thrown"

\* the part of C29 that holds: fetchStakedEsdts returns only after the
\* transaction pages were fetched, and a page that cannot be fetched ends it
\* with the error
C29_PageErrorsPropagate ==
    [][(pc = "start" /\ pc' # "thrown") => allTransactions' = SuccessfulTxs(fetchAllTransactions(ledger))]_vars

\* C30: the comparison of the replayed total with the contract's current
\* token balance changes no per-address balance, and the list returned by
\* fetchStakedEsdts is the list of the replayed balances for every value of
\* the contract balance.
C30_ReconciliationDoesNotCorrect ==
    [][(pc = "esdtFold" /\ pc' = "esdtDone")
        => /\ userBalances' = userBalances
           /\ totalStaked' = totalStaked
           /\ returned' = EsdtStakedData(userBalances)]_vars

\* fetchStakedEsdts has returned balances the contract's reported balance
\* does not cover
C30_Witness ==
    /\ pc = "esdtDone"
    /\ balanceResponse = "200"
    /\ totalStaked > ParseBigInt(contractBalance)
    /\ returned # <<>>

\* a transaction the normalizer filters out of the fungible replay
EsdtFiltered(tx) ==
    \/ tx.status # "success"
    \/ RelevantTransfers(tx) = <<>>
    \/ tx.function \notin {"stake", "userStake", "ESDTTransfer"}

\* a transaction the normalizer filters out of the NFT replay
NftFiltered(tx) ==
    \/ tx.status # "success"
    \/ CollectionTransfers(tx) = <<>>
    \/ tx.function \notin {stakeFunction, "ESDTNFTTransfer"}

\* C16: a transaction whose status is not success, or whose transfer list has
\* no entry for the target collection or token, or whose function is neither
\* a stake function nor the transfer-back function, leaves the HolderState as
\* it was before the transaction was folded; one whose status is not success
\* is not folded at all.
C16_FilteredLeavesState ==
    [][/\ (pc = "esdtFold" /\ foldIdx' = foldIdx + 1
            /\ EsdtFiltered(allTransactions[foldIdx + 1]))
          => (userBalances' = userBalances /\ totalStaked' = totalStaked)
       /\ (pc = "idxFold" /\ foldIdx' = foldIdx + 1
            /\ NftFiltered(allTransactions[foldIdx + 1]))
          => stakedNfts' = stakedNfts
       /\ pc' \in {"esdtFold", "idxFold"}
          => \A i \in 1..Len(allTransactions') : allTransactions'[i].status = "success"]_vars

\* a stake of 30 was folded, then a claimRewards that moves the token, and
\* the ledger holds a failed stake
C16_Witness ==
    /\ pc = "esdtFold"
    /\ foldIdx = 2
    /\ allTransactions[2].function = "claimRewards"
    /\ RelevantTransfers(allTransactions[2]) # <<>>
    /\ \E i \in 1..Len(ledger) : ledger[i].status = "fail"
    /\ userBalances = <<[address |-> Addr1, balance |-> 30]>>
    /\ totalStaked = 30

\* C15: a malformed transaction record (missing action or arguments, missing
\* transfer list, a transfer whose value is no decimal integer string) is
\* skipped and the replay goes on; it never makes fetchStakedEsdts throw.
C15_NormalizerNeverThrows == pc # "foldThrown"

(***************************************************************************)
(* Vocabulary of the claims about the staked-token replay.                 *)
(***************************************************************************)
RECURSIVE Pow10(_)
Pow10(n) == IF n = 0 THEN 1 ELSE 10 * Pow10(n - 1)

RECURSIVE SumOver(_, _)
\* sum of f[i] over the finite set S of indexes
SumOver(f, S) ==
    IF S = {} THEN 0
    ELSE LET i == CHOOSE x \in S : TRUE IN f[i] + SumOver(f, S \ {i})

\* the number a string of decimal digits denotes
DecimalValue(str) ==
    SumOver([i \in 1..Len(str) |-> DigitValue(str[i]) * Pow10(Len(str) - i)], 1..Len(str))

\* the amount a transaction moves: the value of its first transfer of the token
EsdtAmount(tx) ==
    LET matching == {i \in 1..Len(tx.transfers) : tx.transfers[i].token = token}
    IN  IF matching = {} THEN 0
        ELSE DecimalValue(tx.transfers[CHOOSE i \in matching : \A j \in matching : i <= j].value)

IsEsdtStake(tx) ==
    /\ tx.status = "success"
    /\ tx.function \in {"stake", "userStake"}
    /\ tx.receiver = contractAddress

IsEsdtTransferBack(tx) ==
    /\ tx.status = "success"
    /\ tx.function = "ESDTTransfer"
    /\ tx.sender = contractAddress

\* tokens staked by / transferred back to address a in the first k events
StakedBy(txs, a, k) ==
    SumOver([i \in 1..k |-> IF IsEsdtStake(txs[i]) /\ txs[i].sender = a
                            THEN EsdtAmount(txs[i]) ELSE 0], 1..k)

ReturnedTo(txs, a, k) ==
    SumOver([i \in 1..k |-> IF IsEsdtTransferBack(txs[i]) /\ txs[i].receiver = a
                            THEN EsdtAmount(txs[i]) ELSE 0], 1..k)

\* no transfer-back to a exceeds what a holds at that moment
NoOverdraw(txs, a) ==
    \A k \in 1..Len(txs) :
        (IsEsdtTransferBack(txs[k]) /\ txs[k].receiver = a)
        => EsdtAmount(txs[k]) <= StakedBy(txs, a, k - 1) - ReturnedTo(txs, a, k - 1)

\* the balance the returned list reports for a; an address it leaves out holds 0
ReportedBalance(list, a) ==
    LET at == {i \in 1..Len(list) : list[i].address = a}
    IN  IF at = {} THEN 0 ELSE DecimalValue(list[CHOOSE i \in at : TRUE].balance)

AllNonNegative(balances) == \A i \in 1..Len(balances) : balances[i].balance >= 0

\* C2: after every fold step of fetchStakedEsdts every tracked balance is
\* >= 0, and a transfer-back larger than the balance held leaves exactly 0.
C2_NonNegative ==
    [][(pc = "esdtFold" /\ foldIdx' = foldIdx + 1) =>
         LET tx == allTransactions[foldIdx + 1]
         IN  /\ AllNonNegative(userBalances')
             /\ (/\ IsEsdtTransferBack(tx)
                 /\ EsdtAmount(tx) > BalanceOf(userBalances, tx.receiver))
                => BalanceOf(userBalances', tx.receiver) = 0]_vars

\* stake 30, then a transfer-back of 100: the balance was clamped to 0
C2_Witness ==
    /\ pc = "esdtFold"
    /\ foldIdx = 2
    /\ allTransactions[1] = EsdtStake(1, Addr1, V30)
    /\ allTransactions[2] = EsdtTransferBack(2, Addr1, V100)
    /\ userBalances = <<[address |-> Addr1, balance |-> 0]>>

\* C5: for every address, when no transfer-back exceeds the balance held at
\* that moment, the balance fetchStakedEsdts returns is the sum of the
\* address's staked amounts minus the sum transferred back to it.
C5_BalanceArithmetic ==
    pc = "esdtDone" =>
        \A a \in Users :
            NoOverdraw(allTransactions, a) =>
                /\ Cardinality({i \in 1..Len(returned) : returned[i].address = a}) <= 1
                /\ ReportedBalance(returned, a) =
                     StakedBy(allTransactions, a, Len(allTransactions))
                     - ReturnedTo(allTransactions, a, Len(allTransactions))

\* Scenario C: stake 100 at t=1, stake 50 at t=2, transfer-back of 30 at
\* t=3, all of addr1: the returned balance is "120".
C5_Witness ==
    /\ pc = "esdtDone"
    /\ allTransactions =
         <<EsdtStake(1, Addr1, V100), EsdtStake(2, Addr1, V50), EsdtTransferBack(3, Addr1, V30)>>
    /\ returned = <<[address |-> Addr1, balance |-> <<"1", "2", "0">>]>>

\* the sum of userBalances over all addresses
TotalOf(balances) == SumOver([i \in 1..Len(balances) |-> balances[i].balance], 1..Len(balances))

\* C35: after every fold step of fetchStakedEsdts totalStaked equals the sum
\* of userBalances over all addresses, also after a transfer-back that is
\* clamped to zero.
C35_TotalIsSum ==
    pc \in {"esdtFold", "esdtDone"} => totalStaked = TotalOf(userBalances)

\* Addr1 stakes 30 and Addr2 50, then 100 go back to Addr1: the clamp takes
\* the 30 that Addr1 held off the total
C35_Witness ==
    /\ pc = "esdtFold"
    /\ foldIdx = 3
    /\ allTransactions[3] = EsdtTransferBack(3, Addr1, V100)
    /\ userBalances = <<[address |-> Addr2, balance |-> 50], [address |-> Addr1, balance |-> 0]>>
    /\ totalStaked = 50

\* the addresses whose balance a step changes
ChangedBalances ==
    {a \in Users \cup {contractAddress} : BalanceOf(userBalances', a) # BalanceOf(userBalances, a)}

\* how much the step changes the balance of a
BalanceChange(a) ==
    IF BalanceOf(userBalances', a) >= BalanceOf(userBalances, a)
    THEN BalanceOf(userBalances', a) - BalanceOf(userBalances, a)
    ELSE BalanceOf(userBalances, a) - BalanceOf(userBalances', a)

\* C38 as stated: each successful transaction changes the balance of at most
\* one address, by exactly the value of the first entry of its transfer list
\* that matches the token; further matching entries do not contribute, and a
\* zero-valued first match makes the transaction a no-op.
C38_OneTransferPerTx ==
    [][(pc = "esdtFold" /\ foldIdx' = foldIdx + 1)
        => LET tx == allTransactions[foldIdx + 1]
           IN  /\ Cardinality(ChangedBalances) <= 1
               /\ \A a \in ChangedBalances : BalanceChange(a) = EsdtAmount(tx)
               /\ EsdtAmount(tx) = 0
                    => (userBalances' = userBalances /\ totalStaked' = totalStaked)]_vars

\* C38 amended: each successful transaction changes the balance of at most
\* one address, by exactly the value of the first matching entry of its
\* transfer list, or, when it is a transfer-back of more than the address
\* holds, by what the address holds; further matching entries do not
\* contribute, and a zero-valued first match makes the transaction a no-op.
C38_OneTransferPerTxOrClamp ==
    [][(pc = "esdtFold" /\ foldIdx' = foldIdx + 1)
        => LET tx == allTransactions[foldIdx + 1]
           IN  /\ Cardinality(ChangedBalances) <= 1
               /\ \A a \in ChangedBalances :
                     IF IsEsdtTransferBack(tx) /\ EsdtAmount(tx) > BalanceOf(userBalances, a)
                     THEN a = tx.receiver /\ BalanceChange(a) = BalanceOf(userBalances, a)
                     ELSE BalanceChange(a) = EsdtAmount(tx)
               /\ EsdtAmount(tx) = 0
                    => (userBalances' = userBalances /\ totalStaked' = totalStaked)]_vars

\* the stake with two entries of the token, 30 and then 50, has added 30
C38_Witness ==
    /\ pc = "esdtFold"
    /\ foldIdx = 1
    /\ Len(RelevantTransfers(allTransactions[1])) = 2
    /\ userBalances = <<[address |-> Addr1, balance |-> 30]>>
    /\ totalStaked = 30

(***************************************************************************)
(* fetchAllTransactions and fetchScNfts of src/unnamed/part_005, one page  *)
(* request at a time.  The listing holds the records 1..n.                 *)
(***************************************************************************)
BatchSizeOf(c) == IF c = "fetchScNfts" THEN ScPageSize ELSE PageSize

notPages == <<stakedData, unstakedData, foldIdx, stakedNfts, contractLabel, rawStakedEvents,
              validNftIds, returned, esdtVars, ownerVars, retryVars, drawVars, previous, warnings, farVars>>

InitPages ==
    /\ pc = "paging"
    /\ previous = <<>>
    /\ warnings = <<>>
    /\ FarIdle
    /\ collector \in {"fetchAllTransactions", "fetchScNfts"}
    /\ \E n \in 0..MaxRecords : ledger = [i \in 1..n |-> i]
    /\ from = 0
    /\ currentBatchSize = BatchSizeOf(collector)
    /\ requests = <<>>
    /\ NftIdle
    /\ EsdtIdle
    /\ OwnersIdle
    /\ RetryIdle
    /\ DrawIdle

\* part_005:895-906 / 917-926, one iteration of the do-while loop
PageRequest ==
    /\ pc = "paging"
    /\ LET batchSize == BatchSizeOf(collector)
           transactions == ApiPage(ledger, from, batchSize)
       IN  /\ requests' = Append(requests, from)
           /\ allTransactions' = allTransactions \o transactions
           /\ currentBatchSize' = Len(transactions)
           /\ from' = from + batchSize
           /\ pc' = IF LoopAgain(Len(transactions), batchSize) THEN "paging" ELSE "paged"
    /\ UNCHANGED <<ledger, collector>>
    /\ UNCHANGED notPages

\* part_005:898 / 919, the page's fetchWithRetry gives up (part_005:868)
PageRequestFails ==
    /\ pc = "paging"
    /\ requests' = Append(requests, from)
    /\ pc' = "thrown"
    /\ UNCHANGED <<ledger, collector, allTransactions, currentBatchSize, from>>
    /\ UNCHANGED notPages

\* part_005:908 / 928
PagesReturn ==
    /\ pc = "paged"
    /\ returned' = allTransactions
    /\ pc' = "pagesDone"
    /\ UNCHANGED <<ledger, allTransactions, foldIdx, stakedData, unstakedData,
                   stakedNfts, contractLabel, rawStakedEvents, validNftIds, esdtVars, pageVars,
                   ownerVars, retryVars, drawVars, previous, warnings, farVars>>

NextPages ==
    \/ PageRequest
    \/ PageRequestFails
    \/ PagesReturn

SpecPages == InitPages /\ [][NextPages]_vars

\* C6: the collector requests the offsets 0, pageSize, 2*pageSize, ... in
\* that order, issues no request after the first page shorter than pageSize,
\* and returns all n records of the source.
C6_Pagination ==
    LET batchSize == BatchSizeOf(collector)
        n == Len(ledger)
    IN  /\ \A i \in 1..Len(requests) :
              /\ requests[i] = (i - 1) * batchSize
              /\ i > 1 => requests[i - 1] + batchSize <= n
        /\ pc = "pagesDone" =>
              /\ returned = ledger
              /\ Len(requests) = (n \div batchSize) + 1

\* Scenario D at the scale of the model: pages of 2, 2 and 1 records give 5
\* records after exactly three requests.
C6_Witness ==
    /\ pc = "pagesDone"
    /\ collector = "fetchAllTransactions"
    /\ Len(ledger) = 2 * PageSize + 1
    /\ requests = <<0, PageSize, 2 * PageSize>>
    /\ Len(returned) = 2 * PageSize + 1

(***************************************************************************)
(* fetchNftOwnersInBatches of src/index.js: one throttled call per page,   *)
(* each with its own fetchWithRetry, run concurrently.                     *)
(***************************************************************************)
\* index.js:152, retries = 5, delay = 1000
OwnersRetries == 5
OwnersDelay == 1000

\* index.js:169, pThrottle({ limit: 2, interval: 1000 })
ThrottleLimit == 2
ThrottleInterval == 1000

SmartContract == "erd1qqqqqqqqqqqqq-sc"

\* the owner the listing reports for NFT number i; the last NFT of three has
\* none (an owner that is not a string)
OwnerOfNft(i) ==
    IF i % 3 = 1 THEN Addr1 ELSE IF i % 3 = 2 THEN SmartContract ELSE "undefined"

NftRecord(i) == [owner |-> OwnerOfNft(i), identifier |-> i]

\* the collection listing, NFT records 1..n
NftListing(n) == [i \in 1..n |-> NftRecord(i)]

BurnAddress == "erd1deaddeaddeaddeaddeaddeaddeaddeaddeaddeaddeaddeaddeaqtv0gag"

\* a helper that tests the prefix only
isSmartContractAddressPrefixOnly(address) == address = SmartContract

\* index.js:208-211
isSmartContractAddress(address) ==
    \/ address = SmartContract
    \/ address = BurnAddress

\* index.js:197-201
ExcludeSmartContracts(arr) ==
    SelectSeq(arr, LAMBDA o : o.owner # "undefined" /\ ~isSmartContractAddress(o.owner))

\* index.js:168, Math.ceil(tokensNumber / MAX_SIZE)
Repeats(n) == (n + MAX_SIZE - 1) \div MAX_SIZE

\* the answers a page request may get that are not ok
FailedAnswers == {"HTTP Error 500", "network error"}

QueuedBatch == [state |-> "queued", attempt |-> 0, error |-> "none"]

\* index.js:169-171 and 188-190: every call of the throttled function is made
\* at time 0; p-throttle starts the first `limit` of them at once and delays
\* each further group of `limit` calls by one more interval
ThrottleStart(step) == ((step - 1) \div ThrottleLimit) * ThrottleInterval

\* a page request: the page, the attempt of fetchWithRetry and its start time
Request(step, attempt, at) == [step |-> step, attempt |-> attempt, at |-> at]

\* start time of the attempt the page is in
AttemptStart(step) ==
    (CHOOSE r \in issued : r.step = step /\ r.attempt = batch[step].attempt).at

\* index.js:158-161: the attempt is answered after the latency, then the
\* helper sleeps delay * attempt and starts the next attempt
NextAttemptStart(step) == AttemptStart(step) + latency + OwnersDelay * batch[step].attempt

notOwners == <<ledger, stakedData, unstakedData, allTransactions, foldIdx, stakedNfts, contractLabel,
               rawStakedEvents, validNftIds, esdtVars, pageVars, retryVars, drawVars, previous, warnings, farVars>>

InitOwners ==
    /\ pc = "count"
    /\ previous = <<>>
    /\ warnings = <<>>
    /\ FarIdle
    /\ includeSmartContracts \in BOOLEAN
    /\ latency \in {0, 7}
    /\ issued = {}
    /\ tokensNumber = 0
    /\ batch = <<>>
    /\ addressesArr = <<>>
    /\ version = "index.js"
    /\ ledger = <<>>
    /\ NftIdle
    /\ EsdtIdle
    /\ PagesIdle
    /\ RetryIdle
    /\ DrawIdle

\* index.js:148-149 and 168-190: the count is read and one throttled call
\* per page is queued
OwnersCount ==
    /\ pc = "count"
    /\ \E n \in 0..MaxTokens :
          /\ tokensNumber' = n
          /\ batch' = [step \in 1..Repeats(n) |-> QueuedBatch]
    /\ pc' = "calls"
    /\ UNCHANGED <<includeSmartContracts, version, addressesArr, latency, issued, returned>>
    /\ UNCHANGED notOwners

\* index.js:148, the count request fails on the network
OwnersCountFails ==
    /\ pc = "count"
    /\ pc' = "thrown"
    /\ UNCHANGED <<ownerVars, returned>>
    /\ UNCHANGED notOwners

\* index.js:171-174, the throttle lets the next queued call run, in call order
BatchStart ==
    \E step \in 1..Len(batch) :
        /\ pc = "calls"
        /\ batch[step].state = "queued"
        /\ \A earlier \in 1..(step - 1) : batch[earlier].state # "queued"
        /\ batch' = [batch EXCEPT ![step] = [state |-> "fetching", attempt |-> 1, error |-> "none"]]
        /\ issued' = issued \cup {Request(step, 1, ThrottleStart(step))}
        /\ UNCHANGED <<pc, tokensNumber, includeSmartContracts, version, addressesArr, latency, returned>>
        /\ UNCHANGED notOwners

\* index.js:155-157 and 175-181, an attempt is answered ok and the page's
\* records are pushed
BatchAttemptOk ==
    \E step \in 1..Len(batch) :
        /\ pc = "calls"
        /\ batch[step].state = "fetching"
        /\ addressesArr' = addressesArr
                            \o ApiPage(NftListing(tokensNumber), (step - 1) * MAX_SIZE, MAX_SIZE)
        /\ batch' = [batch EXCEPT ![step].state = "pushed", ![step].error = "none"]
        /\ UNCHANGED <<pc, tokensNumber, includeSmartContracts, version, latency, issued, returned>>
        /\ UNCHANGED notOwners

\* index.js:158-161, an attempt that is not the last fails: the helper
\* sleeps delay * attempt and tries again
BatchAttemptRetried ==
    \E step \in 1..Len(batch) :
        /\ pc = "calls"
        /\ batch[step].state = "fetching"
        /\ batch[step].attempt # OwnersRetries
        /\ \E error \in FailedAnswers :
              batch' = [batch EXCEPT ![step].attempt = @ + 1, ![step].error = error]
        /\ issued' = issued \cup {Request(step, batch[step].attempt + 1, NextAttemptStart(step))}
        /\ UNCHANGED <<pc, tokensNumber, includeSmartContracts, version, addressesArr, latency, returned>>
        /\ UNCHANGED notOwners

\* index.js:160 and 182-184, the last attempt fails: fetchWithRetry throws
\* the error and the throttled call catches and logs it
BatchGivesUp ==
    \E step \in 1..Len(batch) :
        /\ pc = "calls"
        /\ batch[step].state = "fetching"
        /\ batch[step].attempt = OwnersRetries
        /\ \E error \in FailedAnswers :
              batch' = [batch EXCEPT ![step].state = "failed", ![step].error = error]
        /\ UNCHANGED <<pc, tokensNumber, includeSmartContracts, version, addressesArr, latency, issued, returned>>
        /\ UNCHANGED notOwners

\* index.js:191-203, every throttled call has settled
OwnersReturn ==
    /\ pc = "calls"
    /\ \A step \in 1..Len(batch) : batch[step].state \in {"pushed", "failed"}
    /\ returned' = IF includeSmartContracts THEN addressesArr
                   ELSE ExcludeSmartContracts(addressesArr)
    /\ pc' = "ownersDone"
    /\ UNCHANGED ownerVars
    /\ UNCHANGED notOwners

NextOwners ==
    \/ OwnersCount
    \/ OwnersCountFails
    \/ BatchStart
    \/ BatchAttemptOk
    \/ BatchAttemptRetried
    \/ BatchGivesUp
    \/ OwnersReturn

SpecOwners == InitOwners /\ [][NextOwners]_vars

\* C7: when a page of the NFT-owner collection still fails after its retry
\* budget, fetchNftOwnersInBatches rejects; it returns no owner list that
\* misses the records of the failed page.
C7_NoDroppedPage ==
    pc = "ownersDone" => \A step \in 1..Len(batch) : batch[step].state # "failed"

\* the page requests started in the interval of ThrottleInterval ms that
\* begins at time t
StartedWithin(t) == {r \in issued : t <= r.at /\ r.at < t + ThrottleInterval}

\* C11: during one fetchNftOwnersInBatches operation at most 2 page requests
\* are started within any 1000 ms interval, the retry attempts of
\* fetchWithRetry included.
C11_RateLimit ==
    \A r \in issued : Cardinality(StartedWithin(r.at)) <= ThrottleLimit

\* the page's attempt k has been started
Started(step, k) == \E r \in issued : r.step = step /\ r.attempt = k

StartOf(step, k) == (CHOOSE r \in issued : r.step = step /\ r.attempt = k).at

\* the time fetchWithRetry slept before attempt k of the page: from the
\* answer to attempt k - 1 to the start of attempt k
WaitBefore(step, k) == StartOf(step, k) - (StartOf(step, k - 1) + latency)

\* C28: in the retry helper the wait doubles from one retry to the next: the
\* wait before attempt k + 2 is twice the wait before attempt k + 1.
C28_ExponentialBackoff ==
    \A step \in 1..Len(batch) :
        \A k \in 2..(OwnersRetries - 1) :
            Started(step, k + 1) => WaitBefore(step, k + 1) = 2 * WaitBefore(step, k)

\* what the helper of index.js does give: the wait before attempt k + 1 is
\* k times the base delay
C28_LinearBackoff ==
    \A step \in 1..Len(batch) :
        \A k \in 1..(OwnersRetries - 1) :
            Started(step, k + 1) => WaitBefore(step, k + 1) = OwnersDelay * k

(***************************************************************************)
(* fetchNftOwners of src/unnamed/part_000 (36-97), part_003 (232-297) and  *)
(* part_006 (54-129): makeCalls is a promise that only the throttled call  *)
(* that pushes the last page resolves.                                     *)
(***************************************************************************)
\* part_006:16
RETRY_LIMIT == 3

Versions == {"part_000", "part_003", "part_006"}

\* part_006:105, retries < RETRY_LIMIT; the texts of part_000 and part_003
\* call the API once per page
RetryLimitOf(v) == IF v = "part_006" THEN RETRY_LIMIT ELSE 0

\* part_006:71 and 95, madeRequests: one increment with each push
MadeRequests(b) == Cardinality({step \in 1..Len(b) : b[step].state = "pushed"})

\* part_000:72, part_003:277, part_006:100: if (madeRequests >= repeats)
\* resolve(...), a statement of the throttled call
ResolvedBy(made, repeats) == made >= repeats

InitCalls ==
    /\ pc = "count"
    /\ previous = <<>>
    /\ warnings = <<>>
    /\ FarIdle
    /\ version \in Versions
    /\ includeSmartContracts \in BOOLEAN
    /\ latency = 0
    /\ issued = {}
    /\ tokensNumber = 0
    /\ batch = <<>>
    /\ addressesArr = <<>>
    /\ returned = <<>>
    /\ ledger = <<>>
    /\ NftIdle
    /\ EsdtIdle
    /\ PagesIdle
    /\ RetryIdle
    /\ DrawIdle

\* part_006:58-61 and 63-117: the count is read, makeCalls creates the
\* promise and queues one throttled call per page
CallsCount ==
    /\ pc = "count"
    /\ \E n \in 0..MaxTokens :
          /\ tokensNumber' = n
          /\ batch' = [step \in 1..Repeats(n) |-> QueuedBatch]
    /\ pc' = "pending"
    /\ UNCHANGED <<includeSmartContracts, version, addressesArr, latency, issued, returned>>
    /\ UNCHANGED notOwners

\* part_006:58, the count request fails on the network and fetchNftOwners
\* rejects (part_000:93-96 with an error of its own)
CallsCountFails ==
    /\ pc = "count"
    /\ pc' = "thrown"
    /\ UNCHANGED <<ownerVars, returned>>
    /\ UNCHANGED notOwners

\* part_006:73, the throttle lets the next queued call run, in call order
CallStart ==
    \E step \in 1..Len(batch) :
        /\ pc = "pending"
        /\ batch[step].state = "queued"
        /\ \A earlier \in 1..(step - 1) : batch[earlier].state # "queued"
        /\ batch' = [batch EXCEPT ![step] = [state |-> "fetching", attempt |-> 1, error |-> "none"]]
        /\ UNCHANGED <<pc, tokensNumber, includeSmartContracts, version, addressesArr, latency,
                       issued, returned>>
        /\ UNCHANGED notOwners

\* part_006:75-102, the page is answered ok: its records are pushed,
\* madeRequests is incremented and compared with repeats
CallOk ==
    \E step \in 1..Len(batch) :
        /\ pc = "pending"
        /\ batch[step].state = "fetching"
        /\ addressesArr' = addressesArr
                            \o ApiPage(NftListing(tokensNumber), (step - 1) * MAX_SIZE, MAX_SIZE)
        /\ batch' = [batch EXCEPT ![step].state = "pushed", ![step].error = "none"]
        /\ pc' = IF ResolvedBy(MadeRequests(batch'), Len(batch)) THEN "resolved" ELSE "pending"
        /\ UNCHANGED <<tokensNumber, includeSmartContracts, version, latency, issued, returned>>
        /\ UNCHANGED notOwners

\* part_006:104-107, the page request fails and retries < RETRY_LIMIT: the
\* throttled function is called again for the page
CallRetried ==
    \E step \in 1..Len(batch) :
        /\ pc = "pending"
        /\ batch[step].state = "fetching"
        /\ batch[step].attempt - 1 < RetryLimitOf(version)
        /\ \E error \in FailedAnswers :
              batch' = [batch EXCEPT ![step].attempt = @ + 1, ![step].error = error]
        /\ UNCHANGED <<pc, tokensNumber, includeSmartContracts, version, addressesArr, latency,
                       issued, returned>>
        /\ UNCHANGED notOwners

\* part_006:108-110 and part_003:273-275, the page request fails for good
\* and the error is logged; in part_000 (56-75) the throttled call rejects
\* and nothing handles the rejection
CallGivesUp ==
    \E step \in 1..Len(batch) :
        /\ pc = "pending"
        /\ batch[step].state = "fetching"
        /\ batch[step].attempt - 1 >= RetryLimitOf(version)
        /\ \E error \in FailedAnswers :
              batch' = [batch EXCEPT ![step].state = "failed", ![step].error = error]
        /\ UNCHANGED <<pc, tokensNumber, includeSmartContracts, version, addressesArr, latency,
                       issued, returned>>
        /\ UNCHANGED notOwners

\* part_006:119-128, await makeCalls() has a value
CallsReturn ==
    /\ pc = "resolved"
    /\ returned' = IF includeSmartContracts THEN addressesArr
                   ELSE ExcludeSmartContracts(addressesArr)
    /\ pc' = "ownersDone"
    /\ UNCHANGED ownerVars
    /\ UNCHANGED notOwners

NextCalls ==
    \/ CallsCount
    \/ CallsCountFails
    \/ CallStart
    \/ CallOk
    \/ CallRetried
    \/ CallGivesUp
    \/ CallsReturn

SpecCalls == InitCalls /\ [][NextCalls]_vars

\* fetchNftOwners has returned a list or rejected with an error
Settled == pc \in {"ownersDone", "thrown"}

\* C27: fetchNftOwners (part_000, part_003, part_006) settles for every
\* response of the count endpoint, a count of 0 included, and also when a
\* page request fails for good: as long as it has neither returned nor
\* rejected, one of its steps can be taken.
C27_OwnersFetchSettles == Settled \/ ENABLED NextCalls

\* the part of C27 that holds: with a count above 0 and no page failing for
\* good, fetchNftOwners is never stuck
C27_SettlesWhenPagesArrive ==
    (tokensNumber > 0 /\ \A step \in 1..Len(batch) : batch[step].state # "failed")
        => (Settled \/ ENABLED NextCalls)

(***************************************************************************)
(* The middleware chain of /stakedNftsSnapshotDraw: checkToken,             *)
(* handleUsageFee with sendUsageFee and checkTransactionStatus, and the     *)
(* route handler, as src/index.js and src/unnamed/part_005 write them.      *)
(* effects lists what the chain did that can be seen from outside.          *)
(***************************************************************************)
\* index.js:82 and part_005:82, retries = 40
FeeRetries == 40

FeeVersions == {"index.js", "part_005"}

Authorizations == {"Bearer SECURE_TOKEN", "Bearer other", "undefined"}

\* req.body.walletPem: none, a text that is no key, the key of a whitelisted
\* wallet, the key of a wallet that has to pay
WalletPems == {"undefined", "not a key", "whitelisted key", "payer key"}

Requests ==
    [authorization : Authorizations, walletPem : WalletPems,
     contractLabel : {"xoxnoStakedNfts", "undefined"},
     usageFeeAlreadyProcessed : {FALSE}, usageFeeHash : {"undefined"}]

\* the answers of transactions/{txHash} that settle nothing: index.js:88-91
\* and 102, part_005:90-101 and 112
NotYetAnswers == {"404", "500", "pending"}

\* index.js:269-270 and part_005:280-281
isWhitelisted(pem) == pem = "whitelisted key"

\* a middleware that lets a request without walletPem pass in every version
PemRequiredNowhere(v) == FALSE

\* index.js:244-250, getPemContent throws without walletPem; part_005:371-375
\* calls next
PemRequired(v) == v = "index.js"

\* index.js:109-111 throws after the last poll; part_005:122 returns the
\* status unknown, which sendUsageFee of part_005:352 takes
ExhaustedPollsThrow(v) == v = "index.js"

\* part_005:367, the request has gone through the middleware before
AlreadyProcessed == version = "part_005" /\ req.usageFeeAlreadyProcessed

Did(effect) == \E i \in 1..Len(effects) : effects[i] = effect

notFee == <<nftVars, esdtVars, pageVars, ownerVars, retryVars, drawVars, previous, warnings,
            poolVars>>

InitFee ==
    /\ pc = "checkToken"
    /\ version \in FeeVersions
    /\ req \in Requests
    /\ feeTx = [sent |-> FALSE, polls |-> 0, answer |-> "none"]
    /\ effects = <<>>
    /\ previous = <<>>
    /\ warnings = <<>>
    /\ ledger = <<>>
    /\ NftIdle
    /\ EsdtIdle
    /\ PagesIdle
    /\ tokensNumber = 0
    /\ includeSmartContracts = FALSE
    /\ batch = <<>>
    /\ addressesArr = <<>>
    /\ latency = 0
    /\ issued = {}
    /\ RetryIdle
    /\ DrawIdle
    /\ PoolIdle

\* index.js:43-46 and part_005:43-46
CheckTokenOk ==
    /\ pc = "checkToken"
    /\ req.authorization = "Bearer SECURE_TOKEN"
    /\ pc' = "handleUsageFee"
    /\ UNCHANGED feeVars
    /\ UNCHANGED notFee

\* index.js:47-49 and part_005:47-49
CheckTokenRejects ==
    /\ pc = "checkToken"
    /\ req.authorization # "Bearer SECURE_TOKEN"
    /\ effects' = Append(effects, "response 401")
    /\ pc' = "responded"
    /\ UNCHANGED <<req, feeTx>>
    /\ UNCHANGED notFee

\* index.js:315 with 244-250 and 328-331; part_005:367-375
FeeWithoutPem ==
    /\ pc = "handleUsageFee"
    /\ ~AlreadyProcessed
    /\ req.walletPem = "undefined"
    /\ IF PemRequired(version)
       THEN effects' = Append(effects, "response 400") /\ pc' = "responded"
       ELSE effects' = Append(effects, "next") /\ pc' = "handler"
    /\ UNCHANGED <<req, feeTx>>
    /\ UNCHANGED notFee

\* index.js:246-248 and 316; part_005:377: the text is no key
FeeBadPem ==
    /\ pc = "handleUsageFee"
    /\ ~AlreadyProcessed
    /\ req.walletPem = "not a key"
    /\ effects' = Append(effects, "response 400")
    /\ pc' = "responded"
    /\ UNCHANGED <<req, feeTx>>
    /\ UNCHANGED notFee

\* index.js:319-323 and part_005:379-382
FeeWhitelisted ==
    /\ pc = "handleUsageFee"
    /\ ~AlreadyProcessed
    /\ req.walletPem \notin {"undefined", "not a key"}
    /\ isWhitelisted(req.walletPem)
    /\ effects' = Append(effects, "next")
    /\ pc' = "handler"
    /\ UNCHANGED <<req, feeTx>>
    /\ UNCHANGED notFee

\* index.js:278-306 and part_005:327-349, the transaction is signed and sent
FeeSubmitted ==
    /\ pc = "handleUsageFee"
    /\ ~AlreadyProcessed
    /\ req.walletPem \notin {"undefined", "not a key"}
    /\ ~isWhitelisted(req.walletPem)
    /\ feeTx' = [sent |-> TRUE, polls |-> 0, answer |-> "none"]
    /\ effects' = Append(effects, "fee submitted")
    /\ pc' = "checkTransactionStatus"
    /\ UNCHANGED req
    /\ UNCHANGED notFee

\* index.js:278-306 and part_005:327-349, the account, the price or the
\* submission fails before a transaction is out
FeeSendFails ==
    /\ pc = "handleUsageFee"
    /\ ~AlreadyProcessed
    /\ req.walletPem \notin {"undefined", "not a key"}
    /\ ~isWhitelisted(req.walletPem)
    /\ effects' = Append(effects, "response 400")
    /\ pc' = "responded"
    /\ UNCHANGED <<req, feeTx>>
    /\ UNCHANGED notFee

\* index.js:85-106 and part_005:85-119, a poll that settles nothing
FeePollNotYet ==
    /\ pc = "checkTransactionStatus"
    /\ feeTx.polls < FeeRetries
    /\ \E answer \in NotYetAnswers :
          feeTx' = [feeTx EXCEPT !.polls = @ + 1, !.answer = answer]
    /\ UNCHANGED <<pc, req, effects>>
    /\ UNCHANGED notFee

\* index.js:96-97, 308-312 and 325-327; part_005:106-107, 351-357 and 384-390
FeePollSuccess ==
    /\ pc = "checkTransactionStatus"
    /\ feeTx.polls < FeeRetries
    /\ feeTx' = [feeTx EXCEPT !.polls = @ + 1, !.answer = "success"]
    /\ req' = [req EXCEPT !.usageFeeHash = "txHash",
                          !.usageFeeAlreadyProcessed = (version = "part_005")]
    /\ effects' = effects \o <<"fee success observed", "next">>
    /\ pc' = "handler"
    /\ UNCHANGED notFee

\* index.js:98-99, 309-311 and 328-331; part_005:108-109, 352-354 and 391-394
FeePollFail ==
    /\ pc = "checkTransactionStatus"
    /\ feeTx.polls < FeeRetries
    /\ feeTx' = [feeTx EXCEPT !.polls = @ + 1, !.answer = "fail"]
    /\ effects' = effects \o <<"fee fail observed", "response 400">>
    /\ pc' = "responded"
    /\ UNCHANGED req
    /\ UNCHANGED notFee

\* index.js:109-111 and 328-331; part_005:122, 356-357 and 384-390
FeePollsExhausted ==
    /\ pc = "checkTransactionStatus"
    /\ feeTx.polls = FeeRetries
    /\ IF ExhaustedPollsThrow(version)
       THEN /\ effects' = Append(effects, "response 400")
            /\ pc' = "responded"
            /\ UNCHANGED req
       ELSE /\ effects' = Append(effects, "next")
            /\ req' = [req EXCEPT !.usageFeeHash = "txHash", !.usageFeeAlreadyProcessed = TRUE]
            /\ pc' = "handler"
    /\ UNCHANGED feeTx
    /\ UNCHANGED notFee

\* index.js:781 with 826-831 and 804-807; part_005:1017 with 948-953
HandlerRejectsLabel ==
    /\ pc = "handler"
    /\ ~LabelSupported(req.contractLabel)
    /\ effects' = effects \o <<"label validated", "response 500">>
    /\ pc' = "responded"
    /\ UNCHANGED <<req, feeTx>>
    /\ UNCHANGED notFee

\* index.js:781 with 836-839 and 804-807, a fetch of the snapshot fails
HandlerFetchFails ==
    /\ pc = "handler"
    /\ LabelSupported(req.contractLabel)
    /\ effects' = effects \o <<"label validated", "snapshot fetch", "response 500">>
    /\ pc' = "responded"
    /\ UNCHANGED <<req, feeTx>>
    /\ UNCHANGED notFee

\* index.js:781-784 and part_005:1017-1020, no staked NFT is found
HandlerNotFound ==
    /\ pc = "handler"
    /\ LabelSupported(req.contractLabel)
    /\ effects' = effects \o <<"label validated", "snapshot fetch", "response 404">>
    /\ pc' = "responded"
    /\ UNCHANGED <<req, feeTx>>
    /\ UNCHANGED notFee

\* index.js:786-802, the draw is answered
HandlerAnswers ==
    /\ pc = "handler"
    /\ LabelSupported(req.contractLabel)
    /\ effects' = effects \o <<"label validated", "snapshot fetch", "response 200">>
    /\ pc' = "responded"
    /\ UNCHANGED <<req, feeTx>>
    /\ UNCHANGED notFee

NextFee ==
    \/ CheckTokenOk
    \/ CheckTokenRejects
    \/ FeeWithoutPem
    \/ FeeBadPem
    \/ FeeWhitelisted
    \/ FeeSubmitted
    \/ FeeSendFails
    \/ FeePollNotYet
    \/ FeePollSuccess
    \/ FeePollFail
    \/ FeePollsExhausted
    \/ HandlerRejectsLabel
    \/ HandlerFetchFails
    \/ HandlerNotFound
    \/ HandlerAnswers

SpecFee == InitFee /\ [][NextFee]_vars

\* effect a comes before effect b in effects
Precedes(a, b) ==
    \A i \in 1..Len(effects) : effects[i] = b => \E j \in 1..(i - 1) : effects[j] = a

\* C36: in part_005 a protected route handler runs (handleUsageFee calls
\* next) only if the caller's wallet is whitelisted or the usage-fee
\* transaction was observed on the ledger with status success; a request
\* without wallet PEM, or whose fee transaction never reaches a definitive
\* status within the polling budget, does not reach the handler.
C36_FeeGate ==
    (version = "part_005" /\ Did("next"))
    => \/ isWhitelisted(req.walletPem)
       \/ Did("fee success observed")

\* C37: in src/index.js, for a caller that is not whitelisted the usage fee
\* is submitted and observed successful before the contract label is
\* validated and before the first snapshot fetch, so a request that ends in
\* 404 or 500 has paid the fee; with a wrong bearer token neither the fee
\* nor a fetch happens.
C37_FeePrecedesWork ==
    version = "index.js"
    => /\ ~isWhitelisted(req.walletPem)
          => /\ Precedes("fee submitted", "fee success observed")
             /\ Precedes("fee success observed", "label validated")
             /\ Precedes("fee success observed", "snapshot fetch")
             /\ (Did("response 404") \/ Did("response 500")) => Did("fee success observed")
       /\ req.authorization # "Bearer SECURE_TOKEN"
          => ~Did("fee submitted") /\ ~Did("snapshot fetch") /\ ~Did("label validated")

\* a paying caller of index.js names an unsupported label: the fee was
\* observed successful before the 500
C37_Witness ==
    /\ version = "index.js"
    /\ req.walletPem = "payer key"
    /\ req.contractLabel = "undefined"
    /\ effects = <<"fee submitted", "fee success observed", "next", "label validated",
                   "response 500">>

(***************************************************************************)
(* The owner fetchers of src/index.js side by side: which of the accounts  *)
(* the API lists each of them returns.  fetchNftOwnersInBatches is taken   *)
(* with every page answered (SpecOwners has its calls one by one).         *)
(***************************************************************************)
\* most accounts one listing of the API holds
MaxAccounts == 2

\* most editions fetchSftOwners is called with
MaxEditions == 2

ListedAddresses == {Addr1, SmartContract, BurnAddress}

Fetchers == {"fetchNftOwnersInBatches", "fetchSftOwners", "fetchEsdtOwners"}

\* index.js:175-179, the NFT records of a listing
NftRecordsOf(listing) == [i \in 1..Len(listing) |-> [owner |-> listing[i], identifier |-> i]]

\* balance the API reports for the account at a place of a listing
AccountAt(listing, i) == [address |-> listing[i], balance |-> i]

AccountsOf(listing) == [i \in 1..Len(listing) |-> AccountAt(listing, i)]

\* index.js:581-583
SftKept(include, data) ==
    SelectSeq(data, LAMBDA owner : include \/ ~isSmartContractAddress(owner.address))

\* index.js:687
EsdtKept(include, data) ==
    SelectSeq(data, LAMBDA owner :
        include \/ (~isSmartContractAddress(owner.address) /\ owner.address # BurnAddress))

\* index.js:688-691, owners.set(owner.address, {...})
OwnersSet(m, owner) ==
    IF \E i \in 1..Len(m) : m[i].address = owner.address
    THEN [i \in 1..Len(m) |-> IF m[i].address = owner.address THEN owner ELSE m[i]]
    ELSE Append(m, owner)

RECURSIVE OwnersSetAll(_, _)
OwnersSetAll(m, data) ==
    IF data = <<>> THEN m ELSE OwnersSetAll(OwnersSet(m, Head(data)), Tail(data))

\* index.js:703, if (totalFetched >= 100000), in pages of 1000
EsdtOwnersCap == 100 * PageSize

notHolders == <<stakedData, unstakedData, allTransactions, stakedNfts, contractLabel,
                rawStakedEvents, validNftIds, esdtVars, collector, currentBatchSize, requests,
                tokensNumber, batch, latency, issued, retryVars, drawVars, previous, warnings,
                farVars>>

InitHolders ==
    /\ pc = "holders"
    /\ version \in Fetchers
    /\ includeSmartContracts \in BOOLEAN
    /\ ledger \in IF version = "fetchSftOwners"
                  THEN SeqsUpTo(SeqsUpTo(ListedAddresses, MaxAccounts), MaxEditions)
                  ELSE {<<listing>> : listing \in SeqsUpTo(ListedAddresses, MaxAccounts)}
    /\ from = 0
    /\ foldIdx = 0
    /\ addressesArr = <<>>
    /\ returned = <<>>
    /\ previous = <<>>
    /\ warnings = <<>>
    /\ FarIdle
    /\ stakedData = <<>>
    /\ unstakedData = <<>>
    /\ allTransactions = <<>>
    /\ stakedNfts = <<>>
    /\ contractLabel = "none"
    /\ rawStakedEvents = <<>>
    /\ validNftIds = {}
    /\ EsdtIdle
    /\ collector = "none"
    /\ currentBatchSize = 0
    /\ requests = <<>>
    /\ tokensNumber = 0
    /\ batch = <<>>
    /\ latency = 0
    /\ issued = {}
    /\ RetryIdle
    /\ DrawIdle

\* index.js:142-203, every page of the collection is answered
NftOwnersFetched ==
    /\ pc = "holders"
    /\ version = "fetchNftOwnersInBatches"
    /\ addressesArr' = NftRecordsOf(ledger[1])
    /\ returned' = IF includeSmartContracts THEN addressesArr'
                   ELSE ExcludeSmartContracts(addressesArr')
    /\ pc' = "holdersDone"
    /\ UNCHANGED <<ledger, version, includeSmartContracts, from, foldIdx>>
    /\ UNCHANGED notHolders

\* index.js:567-595, one pass of the while loop of an edition
SftOwnersPage ==
    /\ pc = "holders"
    /\ version = "fetchSftOwners"
    /\ foldIdx < Len(ledger)
    /\ LET data == ApiPage(AccountsOf(ledger[foldIdx + 1]), from, PageSize)
       IN  /\ addressesArr' = addressesArr \o SftKept(includeSmartContracts, data)
           /\ IF Len(data) = PageSize
              THEN from' = from + PageSize /\ foldIdx' = foldIdx
              ELSE from' = 0 /\ foldIdx' = foldIdx + 1
    /\ UNCHANGED <<pc, ledger, version, includeSmartContracts, returned>>
    /\ UNCHANGED notHolders

\* index.js:598, every edition is through
SftOwnersReturn ==
    /\ pc = "holders"
    /\ version = "fetchSftOwners"
    /\ foldIdx = Len(ledger)
    /\ returned' = addressesArr
    /\ pc' = "holdersDone"
    /\ UNCHANGED <<ledger, version, includeSmartContracts, from, foldIdx, addressesArr>>
    /\ UNCHANGED notHolders

\* index.js:678-707, one pass of while (true) that finds a page with records
EsdtOwnersPage ==
    /\ pc = "holders"
    /\ version = "fetchEsdtOwners"
    /\ from < EsdtOwnersCap
    /\ LET data == ApiPage(AccountsOf(ledger[1]), from, PageSize)
       IN  /\ data # <<>>
           /\ addressesArr' = OwnersSetAll(addressesArr, EsdtKept(includeSmartContracts, data))
           /\ from' = from + PageSize
    /\ UNCHANGED <<pc, ledger, version, includeSmartContracts, foldIdx, returned>>
    /\ UNCHANGED notHolders

\* index.js:684, 703-706 and 716-718, the page is empty or the cap is reached
EsdtOwnersReturn ==
    /\ pc = "holders"
    /\ version = "fetchEsdtOwners"
    /\ \/ ApiPage(AccountsOf(ledger[1]), from, PageSize) = <<>>
       \/ from >= EsdtOwnersCap
    /\ returned' = addressesArr
    /\ pc' = "holdersDone"
    /\ UNCHANGED <<ledger, version, includeSmartContracts, from, foldIdx, addressesArr>>
    /\ UNCHANGED notHolders

\* index.js:572-575 and 666-669, a page request fails for good
OwnersPageFails ==
    /\ pc = "holders"
    /\ version \in {"fetchSftOwners", "fetchEsdtOwners"}
    /\ pc' = "thrown"
    /\ UNCHANGED <<ledger, version, includeSmartContracts, from, foldIdx, addressesArr, returned>>
    /\ UNCHANGED notHolders

NextHolders ==
    \/ NftOwnersFetched
    \/ SftOwnersPage
    \/ SftOwnersReturn
    \/ EsdtOwnersPage
    \/ EsdtOwnersReturn
    \/ OwnersPageFails

SpecHolders == InitHolders /\ [][NextHolders]_vars

\* the address of a returned holder record
HolderAddress(o) == IF version = "fetchNftOwnersInBatches" THEN o.owner ELSE o.address

ReturnedAddresses == {HolderAddress(returned[i]) : i \in 1..Len(returned)}

\* the addresses of all the listings the fetcher has read
AllListed == UNION {{ledger[e][i] : i \in 1..Len(ledger[e])} : e \in 1..Len(ledger)}

\* C34: in src/index.js, when includeSmartContracts is false, no address
\* returned by the NFT, SFT or ESDT owner fetcher is a smart-contract address
\* or the burn address, and the same exclusion rule applies to all three:
\* each returns the listed addresses but those.
C34_SameExclusion ==
    (pc = "holdersDone" /\ ~includeSmartContracts)
    => /\ ReturnedAddresses \cap {SmartContract, BurnAddress} = {}
       /\ ReturnedAddresses = AllListed \ {SmartContract, BurnAddress}

\* fetchSftOwners has read a smart contract, a user and the burn address in
\* two editions and returned the user alone
C34_Witness ==
    /\ pc = "holdersDone"
    /\ ~includeSmartContracts
    /\ version = "fetchSftOwners"
    /\ ledger = <<<<SmartContract, Addr1>>, <<BurnAddress>>>>
    /\ returned = <<[address |-> Addr1, balance |-> 2]>>

(***************************************************************************)
(* fetchStakedNfts of src/unnamed/part_003 (576-640): its own two tables,   *)
(* the two fetches with status=success in the query, and the fold of       *)
(* src/index.js, which it shares.                                          *)
(***************************************************************************)
\* longest ledger fetchStakedNfts of part_003 is run on
MaxProfileEvents == 2

\* part_003:577-582
contractAddresses003 ==
    [oneDexStakedNfts |-> "erd1qqq-onedex", xoxnoStakedNfts |-> contractAddress,
     artCpaStakedNfts |-> "erd1qqq-artcpa", hodlFounderNFTs |-> "erd1qqq-hodl"]

\* part_003:584-589
stakingFunctions003 ==
    [oneDexStakedNfts |-> "userStake", xoxnoStakedNfts |-> stakeFunction,
     artCpaStakedNfts |-> "userStake", hodlFounderNFT |-> "stake"]

\* part_003:591-594, the negation of !contractAddress || !stakeFunction
LabelSupported003(label) ==
    label \in DOMAIN contractAddresses003 /\ label \in DOMAIN stakingFunctions003

\* the labels a request may carry: the profile the ledger of the model
\* belongs to, the last profile as each table spells it, and none
Labels003 == {"xoxnoStakedNfts", "hodlFounderNFTs", "hodlFounderNFT", "undefined"}

InitProfiles ==
    /\ pc = "start003"
    /\ previous = <<>>
    /\ warnings = <<>>
    /\ FarIdle
    /\ ledger \in SeqsUpTo(NftTxSet, MaxProfileEvents)
    /\ stakedData = <<>>
    /\ unstakedData = <<>>
    /\ allTransactions = <<>>
    /\ foldIdx = 0
    /\ stakedNfts = <<>>
    /\ contractLabel \in Labels003
    /\ rawStakedEvents = <<>>
    /\ validNftIds = {}
    /\ returned = <<>>
    /\ EsdtIdle
    /\ PagesIdle
    /\ OwnersIdle
    /\ RetryIdle
    /\ DrawIdle

\* part_003:593-595, thrown before the try block
UnsupportedLabel003 ==
    /\ pc = "start003"
    /\ ~LabelSupported003(contractLabel)
    /\ pc' = "unsupported"
    /\ UNCHANGED nftVars
    /\ UNCHANGED notNft

\* part_003:608-610, the API filters by status before it cuts the page
FetchStaked003 ==
    /\ pc = "start003"
    /\ LabelSupported003(contractLabel)
    /\ stakedData' = ApiPage(OnlySuccess(ByFunction(ledger, stakingFunctions003[contractLabel])),
                             0, PageSize)
    /\ pc' = "staked003"
    /\ UNCHANGED <<ledger, unstakedData, allTransactions, foldIdx, stakedNfts, contractLabel,
                   rawStakedEvents, validNftIds, returned>>
    /\ UNCHANGED notNft

\* part_003:612-616
FetchUnstaked003 ==
    /\ pc = "staked003"
    /\ unstakedData' = ApiPage(OnlySuccess(ByFunction(ledger, "ESDTNFTTransfer")), 0, PageSize)
    /\ allTransactions' = SortByTimestamp(stakedData \o unstakedData')
    /\ pc' = "idxFold"
    /\ UNCHANGED <<ledger, stakedData, foldIdx, stakedNfts, contractLabel, rawStakedEvents,
                   validNftIds, returned>>
    /\ UNCHANGED notNft

\* part_003:600-603, a fetch that answers with a status that is not ok
FetchFails003 ==
    /\ pc \in {"start003", "staked003"}
    /\ LabelSupported003(contractLabel)
    /\ pc' = "thrown"
    /\ UNCHANGED nftVars
    /\ UNCHANGED notNft

NextProfiles ==
    \/ UnsupportedLabel003
    \/ FetchStaked003
    \/ FetchUnstaked003
    \/ FetchFails003
    \/ IdxFoldStep
    \/ IdxReturn

SpecProfiles == InitProfiles /\ [][NextProfiles]_vars

\* C33: in part_003 every contract label that has an entry in
\* contractAddresses also has a stake function, so fetchStakedNfts rejects no
\* configured label as unsupported.
C33_ConfiguredLabelsAccepted ==
    pc = "unsupported" => contractLabel \notin DOMAIN contractAddresses003

(***************************************************************************)
(* asyncPool of src/unnamed/part_005 (872-887).  The for loop runs without  *)
(* interruption until it awaits; the callbacks of Promise.resolve().then    *)
(* run when it does, so the items the loop has passed are handed to         *)
(* iteratorFn at its next await.                                            *)
(***************************************************************************)
\* longest array asyncPool is called with
MaxItems == 3

Items == {"x", "y"}

\* what iteratorFn resolves with for an item
ResultOf(item) == [of |-> item]

\* a pool that waits only when more than poolLimit promises are executing
RaceNeededAbove(length, limit) == length > limit

\* part_005:881, if (executing.length >= poolLimit)
RaceNeeded(length, limit) == length >= limit

\* part_005:876-877, p is created and pushed: iteratorFn has not been called
Scheduled(item) == [item |-> item, state |-> "scheduled"]

\* part_005:876, the then callbacks run: iteratorFn is called with every
\* item that waits for it
Invoked(r) ==
    [i \in 1..Len(r) |-> IF r[i].state = "scheduled" THEN [r[i] EXCEPT !.state = "running"]
                         ELSE r[i]]

\* the invocations of iteratorFn in flight
InFlight == {i \in 1..Len(ret) : ret[i].state = "running"}

notPool == <<nftVars, esdtVars, pageVars, ownerVars, retryVars, drawVars, previous, warnings,
             feeVars>>

InitPool ==
    /\ pc = "loop"
    /\ array \in SeqsUpTo(Items, MaxItems)
    /\ poolLimit \in 0..(MaxItems + 1)
    /\ executing = {}
    /\ ret = <<>>
    /\ previous = <<>>
    /\ warnings = <<>>
    /\ ledger = <<>>
    /\ returned = <<>>
    /\ NftIdle
    /\ EsdtIdle
    /\ PagesIdle
    /\ OwnersIdle
    /\ RetryIdle
    /\ DrawIdle
    /\ FeeIdle

\* part_005:875-884, one iteration of the for loop
PoolLoopStep ==
    /\ pc = "loop"
    /\ Len(ret) < Len(array)
    /\ LET pushed == Append(ret, Scheduled(array[Len(ret) + 1]))
           tracked == IF poolLimit <= Len(array) THEN executing \cup {Len(pushed)}
                      ELSE executing
           waits == poolLimit <= Len(array) /\ RaceNeeded(Cardinality(tracked), poolLimit)
       IN  /\ executing' = tracked
           /\ ret' = IF waits THEN Invoked(pushed) ELSE pushed
           /\ pc' = IF waits THEN "race" ELSE "loop"
    /\ UNCHANGED <<poolLimit, array>>
    /\ UNCHANGED notPool

\* part_005:886, the loop is over and asyncPool awaits Promise.all(ret)
PoolLoopEnds ==
    /\ pc = "loop"
    /\ Len(ret) = Len(array)
    /\ ret' = Invoked(ret)
    /\ pc' = "all"
    /\ UNCHANGED <<poolLimit, array, executing>>
    /\ UNCHANGED notPool

\* part_005:879 and 882, an invocation fulfils: its promise is spliced out of
\* executing, and the loop goes on if it awaited the race
PoolFulfil ==
    \E i \in InFlight :
        /\ pc \in {"race", "all", "poolThrown"}
        /\ ret' = [ret EXCEPT ![i] = [item |-> ret[i].item, state |-> "fulfilled"]]
        /\ executing' = executing \ {i}
        /\ pc' = IF pc = "race" /\ i \in executing THEN "loop" ELSE pc
        /\ UNCHANGED <<poolLimit, array>>
        /\ UNCHANGED notPool

\* part_005:879, 882 and 886, an invocation rejects: e rejects without the
\* splice, and so does the race or the Promise.all that asyncPool awaits
PoolReject ==
    \E i \in InFlight :
        /\ pc \in {"race", "all", "poolThrown"}
        /\ ret' = [ret EXCEPT ![i] = [item |-> ret[i].item, state |-> "rejected"]]
        /\ pc' = IF pc = "all" \/ i \in executing THEN "poolThrown" ELSE pc
        /\ UNCHANGED <<poolLimit, array, executing>>
        /\ UNCHANGED notPool

\* part_005:886, every promise of ret has fulfilled
PoolReturn ==
    /\ pc = "all"
    /\ \A i \in 1..Len(ret) : ret[i].state = "fulfilled"
    /\ returned' = [i \in 1..Len(ret) |-> ResultOf(ret[i].item)]
    /\ pc' = "poolDone"
    /\ UNCHANGED <<ledger, stakedData, unstakedData, allTransactions, foldIdx, stakedNfts,
                   contractLabel, rawStakedEvents, validNftIds>>
    /\ UNCHANGED <<esdtVars, pageVars, ownerVars, retryVars, drawVars, previous, warnings, farVars>>

NextPool ==
    \/ PoolLoopStep
    \/ PoolLoopEnds
    \/ PoolFulfil
    \/ PoolReject
    \/ PoolReturn

SpecPool == InitPool /\ [][NextPool]_vars

\* asyncPool has returned or thrown and no invocation is in flight
PoolAtRest == pc \in {"poolDone", "poolThrown"} /\ InFlight = {}

\* every item of the array was passed to iteratorFn, once and in its place
EveryItemPassed ==
    /\ Len(ret) = Len(array)
    /\ \A i \in 1..Len(ret) : ret[i].item = array[i] /\ ret[i].state # "scheduled"

Retries == 15
Backoff == 2000

url == "https://api.multiversx.com/accounts"

\* an answer of the API: the status of the response, or none when the call
\* fails on the network, and the Retry-After header, <<>> when there is none
Answer(st, ra) == [status |-> st, retryAfter |-> ra]

\* a Retry-After header in its HTTP-date form, "Wed, 21 Oct 2015 07:28:00
\* GMT": a date RetryAfterDateSecs seconds after the answer
HttpDate == <<"W", "e", "d">>

\* 200 is the one answer with response.ok
Answers ==
    {Answer("200", <<>>), Answer("429", <<>>), Answer("429", <<"1">>),
     Answer("429", HttpDate), Answer("500", <<>>), Answer("ECONNRESET", <<>>)}

\* the answer to the k-th HTTP call of the helper
AnswerTo(k) == IF k <= Len(server.script) THEN server.script[k] ELSE server.rest

\* setTimeout(res, ms): a timer of less than 1 ms, or of NaN, runs after 1 ms
TimerDelay(ms) == IF ms < 1 THEN 1 ELSE ms

\* part_005:848-849, retryAfter ? Number(retryAfter) * 1000 : backoff, as
\* the wait of the timer; Number of a string that is no number is NaN
RateLimitDelay(retryAfter, b) ==
    IF retryAfter = <<>> THEN TimerDelay(b)
    ELSE IF IsDigits(retryAfter) THEN TimerDelay(ParseBigInt(retryAfter) * 1000)
    ELSE TimerDelay(0)

\* part_005:852 / 858 / 865, backoff *= 2
NextBackoff(b) == b * 2

\* part_005:868, `Failed to fetch ${url} after ${retries} retries`
FailedToFetch == <<"Failed to fetch ", url, " after ">> \o BigIntToString(Retries) \o <<" retries">>

notRetry == <<ledger, stakedData, unstakedData, allTransactions, foldIdx, stakedNfts, contractLabel,
              rawStakedEvents, validNftIds, esdtVars, pageVars, ownerVars, drawVars, previous, warnings, farVars>>

InitRetry ==
    /\ pc = "retryLoop"
    /\ previous = <<>>
    /\ warnings = <<>>
    /\ FarIdle
    /\ server \in [script : SeqsUpTo(Answers, MaxScript),
                    rest : {Answer("200", <<>>), Answer("429", <<>>),
                            Answer("500", <<>>), Answer("ECONNRESET", <<>>)},
                    lag : {0, 7}]
    /\ attempts = 0
    /\ backoff = Backoff
    /\ delay = 0
    /\ clock = 0
    /\ calls = <<>>
    /\ thrown = <<>>
    /\ ledger = <<>>
    /\ NftIdle
    /\ EsdtIdle
    /\ PagesIdle
    /\ OwnersIdle
    /\ DrawIdle

\* part_005:846-861, one HTTP call answered with a response that is ok
RetryCallOk ==
    /\ pc = "retryLoop"
    /\ attempts < Retries
    /\ AnswerTo(attempts + 1).status = "200"
    /\ calls' = Append(calls, clock)
    /\ clock' = clock + server.lag
    /\ returned' = <<[call |-> attempts + 1, status |-> "200"]>>
    /\ pc' = "retryDone"
    /\ UNCHANGED <<server, attempts, backoff, delay, thrown>>
    /\ UNCHANGED notRetry

\* part_005:846-851, 855-857 and 862-864, one HTTP call that fails: the
\* helper starts to wait
RetryCallFails ==
    /\ pc = "retryLoop"
    /\ attempts < Retries
    /\ LET answer == AnswerTo(attempts + 1)
       IN  /\ answer.status # "200"
           /\ delay' = IF answer.status = "429"
                        THEN RateLimitDelay(answer.retryAfter, backoff)
                        ELSE TimerDelay(backoff)
    /\ calls' = Append(calls, clock)
    /\ clock' = clock + server.lag
    /\ pc' = "retryWait"
    /\ UNCHANGED <<server, attempts, backoff, returned, thrown>>
    /\ UNCHANGED notRetry

\* part_005:851-853, 857-859 and 864-865, the timer runs out
RetryWake ==
    /\ pc = "retryWait"
    /\ clock' = clock + delay + server.lag
    /\ backoff' = NextBackoff(backoff)
    /\ attempts' = attempts + 1
    /\ pc' = "retryLoop"
    /\ UNCHANGED <<server, delay, calls, returned, thrown>>
    /\ UNCHANGED notRetry

\* part_005:868
RetryThrow ==
    /\ pc = "retryLoop"
    /\ attempts = Retries
    /\ thrown' = FailedToFetch
    /\ pc' = "retryThrown"
    /\ UNCHANGED <<server, attempts, backoff, delay, clock, calls, returned>>
    /\ UNCHANGED notRetry

NextRetry ==
    \/ RetryCallOk
    \/ RetryCallFails
    \/ RetryWake
    \/ RetryThrow

SpecRetry == InitRetry /\ [][NextRetry]_vars

\* the parts an error message is made of
PartsOf(message) == {message[k] : k \in 1..Len(message)}

\* C9: when every attempt fails, fetchWithRetry makes exactly `retries`
\* attempts, returns nothing, and throws an error that carries the HTTP
\* status or the network message of the last failed attempt.
C9_RetryExhaustion ==
    pc = "retryThrown" =>
        /\ Len(calls) = Retries
        /\ returned = <<>>
        /\ AnswerTo(Retries).status \in PartsOf(thrown)

\* the backoff delay after the k-th call, k = 1 or 2: the time the
\* Retry-After header of the answer asks for, in seconds or as the date
\* until which to wait, and the doubled backoff when there is no header
PromisedDelay(k) ==
    LET retryAfter == AnswerTo(k).retryAfter
    IN  IF retryAfter = <<>> THEN (IF k = 1 THEN 1 ELSE 2) * Backoff
        ELSE IF IsDigits(retryAfter) THEN DecimalValue(retryAfter) * 1000
        ELSE RetryAfterDateSecs * 1000

\* C10: 429 on the first two attempts and an OK response on the third: the
\* helper returns that response after exactly three HTTP calls, and the third
\* call starts no earlier than the two backoff delays after the first.
C10_RetryThenSuccess ==
    (/\ pc = "retryDone"
     /\ AnswerTo(1).status = "429"
     /\ AnswerTo(2).status = "429"
     /\ AnswerTo(3).status = "200")
    => /\ returned = <<[call |-> 3, status |-> "200"]>>
       /\ Len(calls) = 3
       /\ calls[3] - calls[1] >= PromisedDelay(1) + PromisedDelay(2)

\* what the helper of part_005 does give (843-869): the backoff doubles with
\* every failed attempt
C28_Part005Doubles == [][backoff' # backoff => backoff' = 2 * backoff]_vars

(***************************************************************************)
(* Holder records and generateUniqueOwnerStats (src/index.js 352-385, the  *)
(* same text in part_005 418-451, and the older text of part_003 404-424). *)
(***************************************************************************)
Undefined == "undefined"

\* a record of an NFT listing or of a staked-NFT result
NftHolder(o, id) ==
    [owner |-> o, address |-> Undefined, balance |-> Undefined, identifier |-> id]

\* a record of an SFT or ESDT listing: the balance is a string of digits
BalanceHolder(a, b) ==
    [owner |-> Undefined, address |-> a, balance |-> b, identifier |-> Undefined]

\* index.js:356, owner || address
AccountOf(entry) == IF entry.owner # Undefined THEN entry.owner ELSE entry.address

\* the stats object, kept as its entries in the order the keys were added
StatsHas(stats, account) == \E i \in 1..Len(stats) : stats[i].owner = account

\* a count that is set, not added to
StatsAddOverwrite(stats, account, amount) ==
    IF StatsHas(stats, account)
    THEN [i \in 1..Len(stats) |->
            IF stats[i].owner = account THEN [stats[i] EXCEPT !.tokensCount = amount]
            ELSE stats[i]]
    ELSE Append(stats, [owner |-> account, tokensCount |-> amount])

\* index.js:363-376, stats[account] = 0 when absent, then stats[account] += amount
StatsAdd(stats, account, amount) ==
    IF StatsHas(stats, account)
    THEN [i \in 1..Len(stats) |->
            IF stats[i].owner = account THEN [stats[i] EXCEPT !.tokensCount = @ + amount]
            ELSE stats[i]]
    ELSE Append(stats, [owner |-> account, tokensCount |-> 0 + amount])

\* index.js:367-376, what one entry adds.  For ESDT the count is kept in base
\* units: of the balances of the model, Number(balance) / 10 ** decimals is
\* exact to `decimals` places and so are the sums
AssetAmount(entry, assetType) ==
    IF assetType = "NFT" THEN 1
    ELSE IF entry.balance = Undefined THEN 0
    ELSE ParseBigInt(entry.balance)

\* index.js:355-377, data.forEach
RECURSIVE StatsFold(_, _, _)
StatsFold(stats, data, assetType) ==
    IF data = <<>> THEN stats
    ELSE LET entry == Head(data)
             account == AccountOf(entry)
         IN  StatsFold(IF account = Undefined THEN stats
                       ELSE StatsAdd(stats, account, AssetAmount(entry, assetType)),
                       Tail(data), assetType)

\* part_003:407-416, data.forEach of the older text: keyed by address alone,
\* every record counts 1 unless isEsdt
RECURSIVE StatsFoldByAddress(_, _, _)
StatsFoldByAddress(stats, data, isEsdt) ==
    IF data = <<>> THEN stats
    ELSE LET entry == Head(data)
             formattedBalance ==
                 IF ~isEsdt THEN 1
                 ELSE IF entry.balance = Undefined THEN 0 ELSE ParseBigInt(entry.balance)
         IN  StatsFoldByAddress(StatsAdd(stats, entry.address, formattedBalance),
                                Tail(data), isEsdt)

\* index.js:384, one step of the stable sort by tokensCount, descending
InsertByCount(sorted, e) ==
    LET k == Cardinality({i \in 1..Len(sorted) : sorted[i].tokensCount >= e.tokensCount})
    IN  SubSeq(sorted, 1, k) \o <<e>> \o SubSeq(sorted, k + 1, Len(sorted))

RECURSIVE SortByCount(_)
SortByCount(stats) ==
    IF stats = <<>> THEN <<>>
    ELSE InsertByCount(SortByCount(SubSeq(stats, 1, Len(stats) - 1)), stats[Len(stats)])

\* Number.prototype.toFixed(dec) of units / 10 ** dec
ToFixed(units, dec) ==
    IF dec = 0 THEN BigIntToString(units)
    ELSE LET fraction == BigIntToString(units % Pow10(dec))
         IN  BigIntToString(units \div Pow10(dec)) \o <<".">>
                \o [i \in 1..(dec - Len(fraction)) |-> "0"] \o fraction

\* index.js:379-384
StatsOutput(stats, fixed, dec) ==
    LET sorted == SortByCount(stats)
    IN  [i \in 1..Len(sorted) |->
            [owner |-> sorted[i].owner,
             tokensCount |-> IF fixed THEN ToFixed(sorted[i].tokensCount, dec)
                             ELSE sorted[i].tokensCount]]

\* index.js:352-385 and part_005:418-451
generateUniqueOwnerStats(data, assetType, dec) ==
    StatsOutput(StatsFold(<<>>, data, assetType), assetType = "ESDT", dec)

\* part_003:404-424
generateUniqueOwnerStats_part003(data, isEsdt, dec) ==
    StatsOutput(StatsFoldByAddress(<<>>, data, isEsdt), isEsdt, dec)

\* the NFT records a snapshot may hold: a listing reports some NFTs without
\* an owner
NftHolders == {NftHolder(o, id) : o \in Users \cup {Undefined}, id \in Ids}

\* the balance records a snapshot may hold
BalanceHolders == {BalanceHolder(a, b) : a \in Users, b \in {<<"1">>, <<"2">>}}

notDraw == <<ledger, stakedData, unstakedData, allTransactions, foldIdx, stakedNfts, contractLabel,
             rawStakedEvents, validNftIds, returned, esdtVars, pageVars, ownerVars,
             retryVars, previous, warnings, farVars>>

\* the arguments of one call of generateUniqueOwnerStats
InitStats ==
    /\ pc = "stats"
    /\ previous = <<>>
    /\ warnings = <<>>
    /\ FarIdle
    /\ \/ /\ route = "index.js/generateUniqueOwnerStats"
          /\ \/ /\ body = [assetType |-> "NFT"]
                /\ pool \in SeqsUpTo(NftHolders, MaxPool)
             \/ /\ body \in {[assetType |-> "SFT"], [assetType |-> "ESDT"]}
                /\ pool \in SeqsUpTo(BalanceHolders, MaxPool)
       \/ /\ route = "part_003/generateUniqueOwnerStats"
          /\ body \in {[isEsdt |-> FALSE], [isEsdt |-> TRUE]}
          /\ pool \in SeqsUpTo(BalanceHolders, MaxPool)
    /\ decimals \in {0, 1}
    /\ response = <<>>
    /\ returned = <<>>
    /\ ledger = <<>>
    /\ NftIdle
    /\ EsdtIdle
    /\ PagesIdle
    /\ OwnersIdle
    /\ RetryIdle

\* index.js:352-385
StatsIndex ==
    /\ pc = "stats"
    /\ route = "index.js/generateUniqueOwnerStats"
    /\ response' = generateUniqueOwnerStats(pool, body.assetType, decimals)
    /\ pc' = "statsDone"
    /\ UNCHANGED <<route, body, pool, decimals>>
    /\ UNCHANGED notDraw

\* part_003:404-424
StatsPart003 ==
    /\ pc = "stats"
    /\ route = "part_003/generateUniqueOwnerStats"
    /\ response' = generateUniqueOwnerStats_part003(pool, body.isEsdt, decimals)
    /\ pc' = "statsDone"
    /\ UNCHANGED <<route, body, pool, decimals>>
    /\ UNCHANGED notDraw

NextStats ==
    \/ StatsIndex
    \/ StatsPart003

SpecStats == InitStats /\ [][NextStats]_vars

\* the entries of the input that name the account as their owner
EntriesOwnedBy(data, account) == {i \in 1..Len(data) : data[i].owner = account}

RecordsOf(stats, account) == {i \in 1..Len(stats) : stats[i].owner = account}

\* C19: generateUniqueOwnerStats with assetType NFT: each owner's tokensCount
\* is the number of input entries whose owner is that address, each owner is
\* in exactly one output record, and the counts sum to the number of input
\* entries that have an owner.
C19_NftAggregation ==
    (pc = "statsDone" /\ route = "index.js/generateUniqueOwnerStats"
        /\ body.assetType = "NFT")
    => /\ \A account \in Users :
            IF EntriesOwnedBy(pool, account) = {}
            THEN RecordsOf(response, account) = {}
            ELSE /\ Cardinality(RecordsOf(response, account)) = 1
                 /\ \A i \in RecordsOf(response, account) :
                       response[i].tokensCount = Cardinality(EntriesOwnedBy(pool, account))
       /\ \A i \in 1..Len(response) : response[i].owner \in Users
       /\ SumOver([i \in 1..Len(response) |-> response[i].tokensCount], 1..Len(response))
            = Cardinality({i \in 1..Len(pool) : pool[i].owner # Undefined})

\* two NFTs of one owner, one NFT without an owner
C19_Witness ==
    /\ pc = "statsDone"
    /\ route = "index.js/generateUniqueOwnerStats"
    /\ body.assetType = "NFT"
    /\ Cardinality(EntriesOwnedBy(pool, Addr1)) = 2
    /\ Cardinality(EntriesOwnedBy(pool, Undefined)) = 1
    /\ response = <<[owner |-> Addr1, tokensCount |-> 2]>>

\* the sum of the integer balances of the records of one address
BalanceSum(data, account) ==
    SumOver([i \in 1..Len(data) |->
                IF data[i].address = account THEN DecimalValue(data[i].balance) ELSE 0],
            1..Len(data))

\* C20: in every version of the SFT draw an owner's tokensCount in
\* uniqueOwnerStats is the sum of that owner's integer balances over all
\* fetched edition records.
C20_SftAggregation ==
    (pc = "statsDone"
        /\ \/ route = "index.js/generateUniqueOwnerStats" /\ body.assetType = "SFT"
           \/ route = "part_003/generateUniqueOwnerStats" /\ ~body.isEsdt)
    => \A i \in 1..Len(response) :
          response[i].tokensCount = BalanceSum(pool, response[i].owner)

\* the order of two addresses as strings
AddressRank(account) == IF account = Addr1 THEN 1 ELSE 2

\* index.js:384, parseFloat(tokensCount) in base units: a number as it is, a
\* toFixed string without its decimal point
CountValue(tokensCount, fixed) ==
    IF fixed THEN DecimalValue(SelectSeq(tokensCount, LAMBDA c : c # "."))
    ELSE tokensCount

\* C21: the list returned by generateUniqueOwnerStats is sorted by
\* tokensCount descending, and two owners with equal tokensCount appear in
\* ascending order of owner address, whatever the order of the input records.
C21_AggregatorOrdering ==
    (pc = "statsDone" /\ route = "index.js/generateUniqueOwnerStats")
    => \A i, j \in 1..Len(response) :
          i < j =>
            LET fixed == body.assetType = "ESDT"
                ci == CountValue(response[i].tokensCount, fixed)
                cj == CountValue(response[j].tokensCount, fixed)
            IN  \/ ci > cj
                \/ /\ ci = cj
                   /\ AddressRank(response[i].owner) < AddressRank(response[j].owner)

\* the part of C21 the sort does give: tokensCount never increases along
\* the list
C21_DescendingCounts ==
    (pc = "statsDone" /\ route = "index.js/generateUniqueOwnerStats")
    => \A i \in 1..(Len(response) - 1) :
          CountValue(response[i].tokensCount, body.assetType = "ESDT")
            >= CountValue(response[i + 1].tokensCount, body.assetType = "ESDT")

(***************************************************************************)
(* The draw routes: sftSnapshotDraw (src/index.js 606-650, part_003        *)
(* 368-401), stakedNftsSnapshotDraw (src/index.js 776-808, part_005        *)
(* 1014-1043) and stakedEsdtsSnapshotDraw (part_005 1174-1229).            *)
(***************************************************************************)
SftRoutes == {"index.js/sftSnapshotDraw", "part_003/sftSnapshotDraw"}

StakedNftRoutes == {"index.js/stakedNftsSnapshotDraw", "part_005/stakedNftsSnapshotDraw"}

StakedEsdtRoutes == {"part_005/stakedEsdtsSnapshotDraw"}

Routes == SftRoutes \cup StakedNftRoutes \cup StakedEsdtRoutes

\* req.body: whether the parameters other than numberOfWinners are there,
\* and numberOfWinners when the body has one
Bodies ==
    [params : BOOLEAN] \cup [params : BOOLEAN, numberOfWinners : -1..MaxWinners]

HasNumber(b) == "numberOfWinners" \in DOMAIN b

\* index.js:610, part_003:374, part_005:1178: !param of some required
\* parameter; the staked-NFT routes check nothing
MissingParameters(r, b) ==
    /\ r \in SftRoutes \cup StakedEsdtRoutes
    /\ IF b.params /\ HasNumber(b) THEN b.numberOfWinners = 0 ELSE TRUE

Max(a, b) == IF a > b THEN a ELSE b

\* Array.prototype.slice(0, end): an end below 0 counts from the end of the
\* array, an end that is undefined is the length
Slice(arr, b) ==
    LET len == Len(arr)
        final == IF ~HasNumber(b) THEN len
                 ELSE IF b.numberOfWinners < 0 THEN Max(len + b.numberOfWinners, 0)
                 ELSE Min(b.numberOfWinners, len)
    IN  SubSeq(arr, 1, final)

NoRepeatedKey(list, Key(_)) ==
    \A i, j \in 1..Len(list) : Key(list[i]) = Key(list[j]) => i = j

IdentifierOf(e) == e.identifier

AddressOf(e) == e.address

\* what the helper of the route may resolve with: fetchSftOwners lists one
\* record per edition and holder, fetchStakedNfts one record per identifier
\* (index.js:890, part_005:1002), fetchStakedEsdts one record per address
\* (part_005:1135-1140)
PoolsOf(r) ==
    IF r \in SftRoutes THEN SeqsUpTo(BalanceHolders, MaxPool)
    ELSE IF r \in StakedNftRoutes
    THEN {p \in SeqsUpTo({NftHolder(o, id) : o \in Users, id \in Ids}, MaxPool) :
            NoRepeatedKey(p, IdentifierOf)}
    ELSE {p \in SeqsUpTo({BalanceHolder(a, b) : a \in Users, b \in {V30, V50}}, MaxPool) :
            NoRepeatedKey(p, AddressOf)}

\* part_005:1185, fetchTokenDecimals; the other routes read no decimals
DecimalsOf(r) == IF r \in StakedEsdtRoutes THEN {0, 1} ELSE {0}

\* a result that is never taken as empty
NoHoldersUnchecked(data) == FALSE

\* index.js:619 / 782, part_003:381, part_005:1018 / 1191, data.length === 0
NoHolders(data) == Len(data) = 0

\* part_005:1204-1207, the winners of the ESDT draw with their balance formatted
FormattedWinners(winners, dec) ==
    [i \in 1..Len(winners) |->
        [winners[i] EXCEPT !.balance = ToFixed(ParseBigInt(winners[i].balance), dec)]]

\* index.js:624-628 / 790-791, part_003:385-388, part_005:1024-1028 /
\* 1199-1207: the payload of the 200 answer, given the shuffled array
Payload(r, b, data, shuffled, dec) ==
    LET winners == Slice(shuffled, b)
    IN  IF r = "index.js/stakedNftsSnapshotDraw"
        THEN [status |-> 200, winners |-> winners, total |-> Len(data)]
        ELSE [status |-> 200,
              winners |-> IF r \in StakedEsdtRoutes THEN FormattedWinners(winners, dec)
                          ELSE winners,
              total |-> Len(data),
              uniqueOwnerStats |->
                  IF r = "part_003/sftSnapshotDraw"
                  THEN generateUniqueOwnerStats_part003(data, FALSE, 0)
                  ELSE IF r = "index.js/sftSnapshotDraw"
                  THEN generateUniqueOwnerStats(data, "SFT", 0)
                  ELSE IF r \in StakedNftRoutes
                  THEN generateUniqueOwnerStats(data, "NFT", 0)
                  ELSE generateUniqueOwnerStats(data, "ESDT", dec)]

InitDraw ==
    /\ pc = "request"
    /\ previous = <<>>
    /\ warnings = <<>>
    /\ FarIdle
    /\ route \in Routes
    /\ body \in Bodies
    /\ pool = <<>>
    /\ decimals = 0
    /\ response = <<>>
    /\ returned = <<>>
    /\ ledger = <<>>
    /\ NftIdle
    /\ EsdtIdle
    /\ PagesIdle
    /\ OwnersIdle
    /\ RetryIdle

\* index.js:610-612, part_003:374-376, part_005:1178-1182
DrawBadRequest ==
    /\ pc = "request"
    /\ MissingParameters(route, body)
    /\ response' = [status |-> 400]
    /\ pc' = "responded"
    /\ UNCHANGED <<route, body, pool, decimals>>
    /\ UNCHANGED notDraw

\* index.js:618 / 781, part_003:380, part_005:1017 / 1185-1189: the helper
\* of the route resolves
DrawFetch ==
    /\ pc = "request"
    /\ ~MissingParameters(route, body)
    /\ pool' \in PoolsOf(route)
    /\ decimals' \in DecimalsOf(route)
    /\ pc' = "fetched"
    /\ UNCHANGED <<route, body, response>>
    /\ UNCHANGED notDraw

\* index.js:647-650 / 804-807, part_003:397-400, part_005:1039-1042 /
\* 1225-1228: the helper rejects and the catch answers 500
DrawFetchFails ==
    /\ pc = "request"
    /\ ~MissingParameters(route, body)
    /\ response' = [status |-> 500]
    /\ pc' = "responded"
    /\ UNCHANGED <<route, body, pool, decimals>>
    /\ UNCHANGED notDraw

\* index.js:619-621 / 782-784, part_003:381-383, part_005:1018-1020 / 1191-1193
DrawNotFound ==
    /\ pc = "fetched"
    /\ NoHolders(pool)
    /\ response' = [status |-> 404]
    /\ pc' = "responded"
    /\ UNCHANGED <<route, body, pool, decimals>>
    /\ UNCHANGED notDraw

\* index.js:420, part_005:1027: what the comparator () => 0.5 - Math.random()
\* returns, by sign; Math.random() is below or above 0.5 with equal chances
ComparatorResults == {-1, 1}

\* the comparator calls a sort of n elements makes at most
MaxComparisons(n) == (n * n) \div 2

\* the results of the comparator calls of one sort, in call order; every
\* such sequence is as likely as every other
ComparatorRuns(n) == [1..MaxComparisons(n) -> ComparatorResults]

\* Array.prototype.sort on a short array is an insertion sort that finds the
\* place of each element by bisection: the place of the pivot among the
\* elements left..right-1 (counted from 0), the comparator having been
\* called k times before
RECURSIVE InsertionPoint(_, _, _, _)
InsertionPoint(left, right, run, k) ==
    IF left >= right THEN [at |-> left, called |-> k]
    ELSE LET mid == left + ((right - left) \div 2)
         IN  IF run[k + 1] < 0 THEN InsertionPoint(left, mid, run, k + 1)
             ELSE InsertionPoint(mid + 1, right, run, k + 1)

RECURSIVE SortFrom(_, _, _, _)
SortFrom(sorted, rest, run, k) ==
    IF rest = <<>> THEN sorted
    ELSE LET place == InsertionPoint(0, Len(sorted), run, k)
         IN  SortFrom(SubSeq(sorted, 1, place.at) \o <<Head(rest)>>
                         \o SubSeq(sorted, place.at + 1, Len(sorted)),
                      Tail(rest), run, place.called)

\* index.js:420, part_005:1027: arr.sort(() => 0.5 - Math.random()) when the
\* comparator answers as `run` says
RandomSort(arr, run) ==
    IF arr = <<>> THEN <<>> ELSE SortFrom(<<Head(arr)>>, Tail(arr), run, 0)

\* index.js:624-643 / 787-802, part_003:385-396, part_005:1021-1038 /
\* 1195-1224: sort(() => 0.5 - Math.random()) reorders the array in place
DrawWinners ==
    /\ pc = "fetched"
    /\ ~NoHolders(pool)
    /\ \E run \in ComparatorRuns(Len(pool)) :
        LET shuffled == RandomSort(pool, run) IN
          /\ pool' = shuffled
          /\ response' = Payload(route, body, pool, shuffled, decimals)
    /\ pc' = "responded"
    /\ UNCHANGED <<route, body, decimals>>
    /\ UNCHANGED notDraw

NextDraw ==
    \/ DrawBadRequest
    \/ DrawFetch
    \/ DrawFetchFails
    \/ DrawNotFound
    \/ DrawWinners

SpecDraw == InitDraw /\ [][NextDraw]_vars

\* how often a record is in a list
Occurrences(list, e) == Cardinality({i \in 1..Len(list) : list[i] = e})

\* the entries of the winner list are elements of the pool, none taken twice
DrawnFrom(winners, data) ==
    \A i \in 1..Len(winners) :
        Occurrences(winners, winners[i]) <= Occurrences(data, winners[i])

\* C14: for a pool of size P and a requested number N of the request body the
\* winner list has exactly min(N, P) entries (none when N is below 0), every
\* entry is an element of the pool and no holder record is among the winners
\* twice (sftSnapshotDraw of src/index.js, stakedNftsSnapshotDraw of part_005).
C14_SelectorSize ==
    (/\ pc = "responded"
     /\ route \in {"index.js/sftSnapshotDraw", "part_005/stakedNftsSnapshotDraw"}
     /\ response.status = 200
     /\ HasNumber(body))
    => /\ Len(response.winners) = Max(0, Min(body.numberOfWinners, Len(pool)))
       /\ DrawnFrom(response.winners, pool)

\* C18: whenever the replay yields no holders, the staked-NFT and
\* staked-ESDT draw routes answer 404, with no winners and no 500 answer.
C18_EmptyIsNotFound ==
    [][(pc = "fetched" /\ route \in StakedNftRoutes \cup StakedEsdtRoutes /\ pool = <<>>)
        => (response' = [status |-> 404] /\ pc' = "responded")]_vars

\* the replay of a staked route came back empty and the route answered 404
C18_Witness ==
    /\ pc = "responded"
    /\ route \in StakedEsdtRoutes
    /\ HasNumber(body)
    /\ pool = <<>>
    /\ response = [status |-> 404]

\* the number of equally likely comparator runs after which the element at
\* place order[i] of the array is at place i, for every i
ShuffleWeight(n, order) ==
    Cardinality({run \in ComparatorRuns(n) : RandomSort([i \in 1..n |-> i], run) = order})

\* C23: the winner selection shuffles the pool so that every ordering of the
\* pool is equally likely.
C23_UnbiasedDraw ==
    (pc = "fetched" /\ ~NoHolders(pool))
    => \A o1, o2 \in PermsOf([i \in 1..Len(pool) |-> i]) :
          ShuffleWeight(Len(pool), o1) = ShuffleWeight(Len(pool), o2)

\* the part of C23 the sort does give: every ordering of the pool can come
\* out of the shuffle
C23_EveryOrderingPossible ==
    (pc = "fetched" /\ ~NoHolders(pool))
    => \A o \in PermsOf([i \in 1..Len(pool) |-> i]) : ShuffleWeight(Len(pool), o) > 0

====
